---- MODULE Spec2Model ----
(***************************************************************************)
(* Model of SvxRTFParser (editeng/source/rtf/svxrtf.cxx): the attribute    *)
(* scope stack, its close resolution (AttrGroupEnd), the range compressor  *)
(* (SvxRTFItemStackType::Compress), the commit path (SetAttrSet) and the   *)
(* readers of the color, font and style tables.                            *)
(*                                                                         *)
(* The document is the external text model.  It is a sequence of paragraph *)
(* lengths; the insertion cursor (insNd, insCnt) is a paragraph index      *)
(* (1-based) and a character offset.  Text is imported at the end of the   *)
(* document, so outside AttrGroupEnd the cursor is the end of the last     *)
(* paragraph.                                                              *)
(***************************************************************************)
EXTENDS Integers, Sequences, FiniteSets, TLC

VARIABLES input,           \* tokens the lexer still holds, when they are laid down
          nTok,            \* tokens dispatched so far
          aAttrStack,      \* open scope records, innermost last
          m_AttrSetList,   \* flush list: closed outermost records
          bNewGroup,       \* a '{' was read and its scope is not materialised
          doc,             \* paragraph lengths of the document
          insNd, insCnt,   \* pInsPos: node index and content index
          eState,          \* parser status
          bChkStyleAttr,   \* IsChkStyleAttr()
          m_StyleTable,    \* style id -> style record
          ev,              \* what the last dispatched token did
          aColorTbl,       \* colors in the order of the color table
          m_FontTable,     \* font id -> font
          reader           \* the table reader that holds the token source, and its locals

vars == <<input, nTok, aAttrStack, m_AttrSetList, bNewGroup, doc, insNd, insCnt, eState,
          bChkStyleAttr, m_StyleTable, ev, aColorTbl, m_FontTable, reader>>

\* what the dispatcher's scope handling leaves alone
tblVars == <<aColorTbl, m_FontTable, reader>>

----------------------------------------------------------------------------
(* Bounds of the model *)
MaxTokens == 6     \* tokens of a freely chosen token stream

(* Program constant: fan-out threshold of a child list *)
FanOut == 50

----------------------------------------------------------------------------
(* Attribute collections (SfxItemSet): which-id -> value, Unset if absent *)
PardIds == {"par"}                 \* ids of aPardMap
PlainIds == {"chr"}                \* ids of aPlainMap
Ids == PardIds \cup PlainIds       \* aWhichMap
Vals == {1, 2}
Unset == 0
\* an attribute collection is built with one field per which-id
MkSet(F(_)) == [par |-> F("par"), chr |-> F("chr")]
EmptySet == MkSet(LAMBDA i : Unset)
Count(set) == Cardinality({i \in Ids : set[i] # Unset})
PoolDefault(id) == 1               \* rPool.GetDefaultItem(nWhich)

bNewDoc == TRUE

\* GetRTFDefaults: with bNewDoc the script-space item becomes a pool
\* default and the RTF default set stays empty.
GetRTFDefaults == IF bNewDoc THEN EmptySet ELSE MkSet(LAMBDA i : IF i = "par" THEN 1 ELSE Unset)

\* SvxRTFItemStackType::SetRTFDefaults: put every default not yet set
SetRTFDefaults(rec, rDefaults) ==
  [rec EXCEPT !.aAttrSet = MkSet(LAMBDA i : IF rDefaults[i] # Unset /\ rec.aAttrSet[i] = Unset
                                             THEN rDefaults[i] ELSE rec.aAttrSet[i])]

----------------------------------------------------------------------------
(* Scope records *)

\* SvxRTFItemStackType(rPool, pWhichRange, rPos)
NewStackType(nd, cnt) ==
  [aAttrSet |-> EmptySet, nStyleNo |-> 0,
   pSttNd |-> nd, nSttCnt |-> cnt, pEndNd |-> nd, nEndCnt |-> cnt,
   m_pChildList |-> <<>>]

\* variant: the start is taken from rCpy, not from rPos
CopyStackTypeSameStart(rCpy, nd, cnt, bCopyAttr) ==
  [aAttrSet |-> IF bCopyAttr THEN rCpy.aAttrSet ELSE EmptySet,
   nStyleNo |-> rCpy.nStyleNo,
   pSttNd |-> rCpy.pSttNd, nSttCnt |-> rCpy.nSttCnt, pEndNd |-> nd, nEndCnt |-> cnt,
   m_pChildList |-> <<>>]

\* SvxRTFItemStackType(rCpy, rPos, bCopyAttr)
CopyStackType(rCpy, nd, cnt, bCopyAttr) ==
  [aAttrSet |-> IF bCopyAttr THEN rCpy.aAttrSet ELSE EmptySet,
   nStyleNo |-> rCpy.nStyleNo,
   pSttNd |-> nd, nSttCnt |-> cnt, pEndNd |-> nd, nEndCnt |-> cnt,
   m_pChildList |-> <<>>]

\* SvxRTFItemStackType::Add
Add(rec, pIns) == [rec EXCEPT !.m_pChildList = Append(@, pIns)]

Last(s) == s[Len(s)]
Front(s) == SubSeq(s, 1, Len(s) - 1)

\* document order of positions
PosLess(n1, c1, n2, c2) == n1 < n2 \/ (n1 = n2 /\ c1 < c2)
PosLeq(n1, c1, n2, c2) == n1 < n2 \/ (n1 = n2 /\ c1 <= c2)

----------------------------------------------------------------------------
(* The document model (external collaborator) *)

\* MovePos(bForward): one position left or right; stays where it is when
\* there is no such position
MovePos(d, nd, cnt, bForward) ==
  IF bForward
  THEN IF cnt < d[nd] THEN [nd |-> nd, cnt |-> cnt + 1]
       ELSE IF nd < Len(d) THEN [nd |-> nd + 1, cnt |-> 0]
       ELSE [nd |-> nd, cnt |-> cnt]
  ELSE IF cnt > 0 THEN [nd |-> nd, cnt |-> cnt - 1]
       ELSE IF nd > 1 THEN [nd |-> nd - 1, cnt |-> d[nd - 1]]
       ELSE [nd |-> nd, cnt |-> cnt]

\* IsEndPara(pNd, nCnt)
IsEndPara(d, nd, cnt) == nd \in 1..Len(d) /\ d[nd] = cnt

\* SetEndPrevPara(rpNodePos, rCntPos): end of the paragraph before the cursor's
SetEndPrevPara(d, nd) ==
  LET p == IF nd > 1 THEN nd - 1 ELSE nd IN [nd |-> p, cnt |-> d[p]]

----------------------------------------------------------------------------
(* Style filtering *)

ClearDefault(set, i) ==
  IF set[i] # Unset /\ set[i] = PoolDefault(i) THEN Unset ELSE set[i]

\* variant: an id the style does not set is left alone
ClearStyleAttrNoFallback(rStkType, chk, styles) ==
  LET rSet == rStkType.aAttrSet IN
  IF ~chk \/ Count(rSet) = 0 \/ rStkType.nStyleNo \notin DOMAIN styles
  THEN [rStkType EXCEPT !.aAttrSet = MkSet(LAMBDA i : ClearDefault(rSet, i))]
  ELSE LET rStyleSet == styles[rStkType.nStyleNo].aAttrSet IN
       [rStkType EXCEPT !.aAttrSet =
          MkSet(LAMBDA i : IF rSet[i] # Unset /\ rSet[i] = rStyleSet[i] THEN Unset ELSE rSet[i])]

ClearStyleAttr_(rStkType, chk, styles) ==
  LET rSet == rStkType.aAttrSet IN
  IF ~chk \/ Count(rSet) = 0 \/ rStkType.nStyleNo \notin DOMAIN styles
  THEN [rStkType EXCEPT !.aAttrSet = MkSet(LAMBDA i : ClearDefault(rSet, i))]
  ELSE LET rStyleSet == styles[rStkType.nStyleNo].aAttrSet IN
       [rStkType EXCEPT !.aAttrSet =
          MkSet(LAMBDA i : IF rStyleSet[i] # Unset
                           THEN (IF rSet[i] # Unset /\ rSet[i] = rStyleSet[i] THEN Unset ELSE rSet[i])
                           ELSE ClearDefault(rSet, i))]

----------------------------------------------------------------------------
(* Range compressor: SvxRTFItemStackType::Compress *)

\* the contiguity test of the loop: TRUE when the child does not continue
\* the range that ended at (lastNd, lastCnt)
Gap(d, pTmp, lastNd, lastCnt) ==
  IF pTmp.nSttCnt = 0
  THEN (lastNd + 1 # pTmp.pSttNd \/ ~IsEndPara(d, lastNd, lastCnt))
  ELSE (pTmp.nSttCnt # lastCnt \/ lastNd # pTmp.pSttNd)

\* variant: the values are not compared
NarrowAnyValue(aMrgSet, pTmp) ==
  MkSet(LAMBDA i : IF aMrgSet[i] # Unset /\ pTmp.aAttrSet[i] # Unset
                   THEN aMrgSet[i] ELSE Unset)

\* keep of aMrgSet the items the child holds with an equal value
Narrow(aMrgSet, pTmp) ==
  MkSet(LAMBDA i : IF aMrgSet[i] # Unset /\ pTmp.aAttrSet[i] = aMrgSet[i]
                   THEN aMrgSet[i] ELSE Unset)

\* variant: Put leaves an item the set already holds
PutNew(set, rSet) == MkSet(LAMBDA i : IF set[i] # Unset THEN set[i] ELSE rSet[i])

\* SfxItemSet::Put(rSet): items of rSet replace the set's own
Put(set, rSet) == MkSet(LAMBDA i : IF rSet[i] # Unset THEN rSet[i] ELSE set[i])

\* SfxItemSet::Differentiate(rSet): delete the items that rSet holds
Differentiate(set, rSet) == MkSet(LAMBDA i : IF rSet[i] # Unset THEN Unset ELSE set[i])

\* a child that carries nothing once the merged items are taken away
Erasable(pTmp) ==
  pTmp.m_pChildList = <<>> /\ Count(pTmp.aAttrSet) = 0 /\ pTmp.nStyleNo = 0

\* the middle of lo..hi: the loops over a child list are laid out as
\* halves, so that a list of FanOut children nests only a few levels deep
Mid(lo, hi) == (lo + hi) \div 2

\* the last loop: take aMrgSet from the children lo..hi and erase those
\* left without content
RECURSIVE Subtract(_, _, _, _)
Subtract(kids, lo, hi, aMrgSet) ==
  IF lo > hi THEN <<>>
  ELSE IF lo = hi
  THEN (IF Erasable([kids[lo] EXCEPT !.aAttrSet = Differentiate(@, aMrgSet)])
        THEN <<>>
        ELSE <<[kids[lo] EXCEPT !.aAttrSet = Differentiate(@, aMrgSet)]>>)
  ELSE Subtract(kids, lo, Mid(lo, hi), aMrgSet) \o Subtract(kids, Mid(lo, hi) + 1, hi, aMrgSet)

\* "It can be merged": put aMrgSet into the node, then the last loop
Merge(node, kids, aMrgSet) ==
  [node EXCEPT !.aAttrSet = Put(@, aMrgSet),
               !.m_pChildList = Subtract(kids, 1, Len(kids), aMrgSet)]

RECURSIVE Compress(_, _)
RECURSIVE CompressRest(_, _, _, _)
RECURSIVE CompressFrom(_, _, _, _)

\* pTmp->Compress( rParser ) under "if (pTmp->m_pChildList)"
CompressKid(d, pTmp) == IF pTmp.m_pChildList # <<>> THEN Compress(d, pTmp) ELSE pTmp

\* the inner while loop: the children lo..hi, each compressed
CompressRest(d, kids, lo, hi) ==
  IF lo > hi THEN <<>>
  ELSE IF lo = hi THEN <<CompressKid(d, kids[lo])>>
  ELSE CompressRest(d, kids, lo, Mid(lo, hi)) \o CompressRest(d, kids, Mid(lo, hi) + 1, hi)

\* the loop state before the first pass: aMrgSet and the end of the first child
LoopStart(kids) ==
  [kids |-> kids, ok |-> TRUE, mrg |-> kids[1].aAttrSet,
   lastNd |-> kids[1].pEndNd, lastCnt |-> kids[1].nEndCnt]

\* what a pass does with the compressed child pTmp; ok turns FALSE when
\* the function returns from inside the loop
CompressTest(d, st, n, pTmp) ==
  IF Gap(d, pTmp, st.lastNd, st.lastCnt)
  THEN [st EXCEPT !.kids = SubSeq(st.kids, 1, n - 1) \o <<pTmp>>
                              \o CompressRest(d, st.kids, n + 1, Len(st.kids)),
                  !.ok = FALSE]
  ELSE IF Count(Narrow(st.mrg, pTmp)) = 0
  THEN [st EXCEPT !.kids[n] = pTmp, !.ok = FALSE, !.mrg = Narrow(st.mrg, pTmp)]
  ELSE [st EXCEPT !.kids[n] = pTmp, !.mrg = Narrow(st.mrg, pTmp),
                  !.lastNd = pTmp.pEndNd, !.lastCnt = pTmp.nEndCnt]

\* one pass of the for loop, for child n (1-based; the code's n is one less)
CompressStep(d, st, n) ==
  IF ~st.ok THEN st ELSE CompressTest(d, st, n, CompressKid(d, st.kids[n]))

\* the passes for the children from n on, given the state st that the
\* passes before them left
OrRest(d, st, n, hi) == IF ~st.ok THEN st ELSE CompressFrom(d, st, n, hi)

\* the for loop over the children lo..hi
CompressFrom(d, st, lo, hi) ==
  IF lo > hi THEN st
  ELSE IF lo = hi THEN CompressStep(d, st, lo)
  ELSE OrRest(d, CompressFrom(d, st, lo, Mid(lo, hi)), Mid(lo, hi) + 1, hi)

\* variant: the end of the last child is not compared with the node's
CompressEndAnyEnd(node, r) ==
  IF ~r.ok
  THEN [node EXCEPT !.m_pChildList = r.kids]
  ELSE Merge(node, r.kids, r.mrg)

\* the end of the function, after the for loop
CompressEnd(node, r) ==
  IF ~r.ok \/ node.pEndNd # r.lastNd \/ node.nEndCnt # r.lastCnt
  THEN [node EXCEPT !.m_pChildList = r.kids]
  ELSE Merge(node, r.kids, r.mrg)

\* variant: the first child need not start where the node starts
CompressAnyStart(d, node) ==
  IF node.m_pChildList = <<>> THEN node
  ELSE IF Count(node.m_pChildList[1].aAttrSet) = 0
  THEN node
  ELSE CompressEnd(node, CompressFrom(d, LoopStart(node.m_pChildList), 2,
                                      Len(node.m_pChildList)))

Compress(d, node) ==
  IF node.m_pChildList = <<>> THEN node
  ELSE IF \/ Count(node.m_pChildList[1].aAttrSet) = 0
          \/ node.pSttNd # node.m_pChildList[1].pSttNd
          \/ node.nSttCnt # node.m_pChildList[1].nSttCnt
  THEN node
  ELSE CompressEnd(node, CompressFrom(d, LoopStart(node.m_pChildList), 2,
                                      Len(node.m_pChildList)))

----------------------------------------------------------------------------
(* Commit path: SetAttrSet hands a record and its children to SetAttrInDoc *)

\* one call of SetAttrInDoc; path locates the record in the committed tree
DocCall(rSet, path) ==
  [pSttNd |-> rSet.pSttNd, nSttCnt |-> rSet.nSttCnt,
   pEndNd |-> rSet.pEndNd, nEndCnt |-> rSet.nEndCnt,
   aAttrSet |-> rSet.aAttrSet, nStyleNo |-> rSet.nStyleNo, path |-> path]

\* variant: the style number is not looked at
HasAttrs(rSet) == Count(rSet.aAttrSet) # 0

\* the condition under which a record is handed to SetAttrInDoc
HasContent(rSet) == Count(rSet.aAttrSet) # 0 \/ rSet.nStyleNo # 0

RECURSIVE SetAttrSet(_, _, _)
RECURSIVE SetChildren(_, _, _, _, _)

\* what the calls made for two runs of children add up to
Join(L, R) == [kids |-> L.kids \o R.kids, calls |-> L.calls \o R.calls]
One(r) == [kids |-> <<r.tree>>, calls |-> r.calls]

\* the loop over the child list, for the children lo..hi
SetChildren(d, kids, lo, hi, path) ==
  IF lo > hi THEN [kids |-> <<>>, calls |-> <<>>]
  ELSE IF lo = hi THEN One(SetAttrSet(d, kids[lo], Append(path, lo)))
  ELSE Join(SetChildren(d, kids, lo, Mid(lo, hi), path),
            SetChildren(d, kids, Mid(lo, hi) + 1, hi, path))

\* the record c after Compress: the call for it, then its children
SetCompressed(d, c, path) ==
  Join([kids |-> <<>>, calls |-> IF HasContent(c) THEN <<DocCall(c, path)>> ELSE <<>>],
       SetChildren(d, c.m_pChildList, 1, Len(c.m_pChildList), path))

\* the tree as committed, and the calls made
Done(c, r) == [tree |-> [c EXCEPT !.m_pChildList = r.kids], calls |-> r.calls]
SetDone(d, c, path) == Done(c, SetCompressed(d, c, path))

SetAttrSet(d, rSet, path) == SetDone(d, CompressKid(d, rSet), path)

\* variant: the loop runs from the first record to the last
RECURSIVE FlushForward(_, _, _)
FlushForward(d, lst, n) ==
  IF n = 0 THEN [after |-> lst, calls |-> <<>>]
  ELSE LET more == FlushForward(d, lst, n - 1)
           one == SetAttrSet(d, lst[n], <<n>>)
       IN [after |-> [more.after EXCEPT ![n] = one.tree], calls |-> more.calls \o one.calls]

\* variant: the loop stops before the first record
RECURSIVE FlushAllButFirst(_, _, _)
FlushAllButFirst(d, lst, n) ==
  IF n <= 1 THEN [after |-> lst, calls |-> <<>>]
  ELSE LET one == SetAttrSet(d, lst[n], <<n>>)
           more == FlushAllButFirst(d, lst, n - 1)
       IN [after |-> [more.after EXCEPT ![n] = one.tree], calls |-> one.calls \o more.calls]

\* the flush loop of NextToken and SetAllAttrOfStk: last record first
RECURSIVE FlushFrom(_, _, _)
FlushFrom(d, lst, n) ==
  IF n = 0 THEN [after |-> lst, calls |-> <<>>]
  ELSE LET one == SetAttrSet(d, lst[n], <<n>>)
           more == FlushFrom(d, lst, n - 1)
       IN [after |-> [more.after EXCEPT ![n] = one.tree], calls |-> one.calls \o more.calls]

----------------------------------------------------------------------------
(* Close resolution: SvxRTFParser::AttrGroupEnd *)

\* "no attributes or Area": the record is dropped at once
\* variant: only the record without attributes and style is discarded
TrivialDiscardEmptyOnly(pOld, nd, cnt) ==
  pOld.m_pChildList = <<>> /\ Count(pOld.aAttrSet) = 0 /\ pOld.nStyleNo = 0

TrivialDiscard(pOld, nd, cnt) ==
  pOld.m_pChildList = <<>> /\
  ((Count(pOld.aAttrSet) = 0 /\ pOld.nStyleNo = 0) \/
   (pOld.pSttNd = nd /\ pOld.nSttCnt = cnt))

\* variant: the comparison with the parent's item is inverted
ParentDiffInverted(pOld, pCurrent) ==
  [pOld EXCEPT !.aAttrSet =
     MkSet(LAMBDA i : IF pCurrent.aAttrSet[i] # Unset /\ pOld.aAttrSet[i] # pCurrent.aAttrSet[i]
                      THEN Unset ELSE pOld.aAttrSet[i])]

\* "set only the attributes that are different from the parent"
ParentDiff(pOld, pCurrent) ==
  [pOld EXCEPT !.aAttrSet =
     MkSet(LAMBDA i : IF pCurrent.aAttrSet[i] # Unset /\ pOld.aAttrSet[i] = pCurrent.aAttrSet[i]
                      THEN Unset ELSE pOld.aAttrSet[i])]

\* variant: the loop runs over aPlainMap
RemovePlain(pNew) ==
  [pNew EXCEPT !.aAttrSet = MkSet(LAMBDA i : IF i \in PlainIds THEN Unset ELSE pNew.aAttrSet[i])]

\* "Delete all paragraph attributes from pNew"
RemovePard(pNew) ==
  [pNew EXCEPT !.aAttrSet = MkSet(LAMBDA i : IF i \in PardIds THEN Unset ELSE pNew.aAttrSet[i])]

\* the earlier piece of a split ends where the previous paragraph ends
SplitOld(pOld, e) == [pOld EXCEPT !.pEndNd = e.nd, !.nEndCnt = e.cnt]

\* the later piece of a split starts with the cursor's paragraph
SplitNew(pNew) == [pNew EXCEPT !.nStyleNo = 0, !.nSttCnt = 0]

\* variant: the threshold is met one child earlier
FanOutHitAtFifty(bCrsrBack, pCurrent) == bCrsrBack /\ FanOut <= Len(pCurrent.m_pChildList)

\* the fan-out test after pCurrent->Add(pOld)
FanOutHit(bCrsrBack, pCurrent) == bCrsrBack /\ FanOut < Len(pCurrent.m_pChildList)

\* variant: the unsplit record is filtered under a parent too
FilterPlainAlways(pOld, hasCur, chk, styles) ==
  IF chk THEN ClearStyleAttr_(pOld, chk, styles) ELSE pOld

\* the style filter of the unsplit record
FilterPlain(pOld, hasCur, chk, styles) ==
  IF chk /\ ~hasCur THEN ClearStyleAttr_(pOld, chk, styles) ELSE pOld

\* the style filter of the two pieces of a split
FilterSplit(rec, chk, styles) ==
  IF chk THEN ClearStyleAttr_(rec, chk, styles) ELSE rec

\* variant: the start has to be before the cursor
InRangeStrict(pOld, nd, cnt) == PosLess(pOld.pSttNd, pOld.nSttCnt, nd, cnt)

\* the range test: the record starts at or before the cursor (nd, cnt)
InRange(pOld, nd, cnt) == PosLeq(pOld.pSttNd, pOld.nSttCnt, nd, cnt)

\* variant: only the content index of the end is set
CloseAtCntOnly(pOld, mv) == [pOld EXCEPT !.nEndCnt = mv.cnt]

\* the unsplit record ends at the cursor
CloseAt(pOld, mv) == [pOld EXCEPT !.pEndNd = mv.nd, !.nEndCnt = mv.cnt]

\* variant: the cursor stays where the step back left it
StepForwardNever(d, bCrsrBack, mv) == mv

\* the last statement: a cursor that was moved back is moved forward again
StepForward(d, bCrsrBack, mv) ==
  IF bCrsrBack THEN MovePos(d, mv.nd, mv.cnt, TRUE) ELSE mv

\* variant: the scope that replaces the parent is not pushed
ReopenNot(stk, pNew) == stk

\* the fan-out rule's last statement: the scope that replaces the parent
\* goes onto the stack
Reopen(stk, pNew) == Append(stk, pNew)

NoRec == NewStackType(0, 0)

\* P = [stk, lst, nd, cnt, log]: stack, flush list, cursor, and one entry
\* of log per call that found a record on the stack
RECURSIVE AttrGroupEnd(_, _, _, _)
AttrGroupEnd(d, chk, styles, P) ==
  IF P.stk = <<>> THEN P
  ELSE
  LET pOld0 == Last(P.stk)
      rest == Front(P.stk)
      hasCur == rest # <<>>
      pCurrent == IF hasCur THEN Last(rest) ELSE NoRec
      under == IF hasCur THEN Front(rest) ELSE <<>>
      Entry(res, back, fan, pieces) ==
        [res |-> res, back |-> back, fan |-> fan, old |-> pOld0,
         cur |-> pCurrent, hasCur |-> hasCur, pieces |-> pieces,
         nd |-> P.nd, cnt |-> P.cnt, depth |-> Len(P.stk)]
      Out(stk, lst, nd, cnt, log, e) ==
        [stk |-> stk, lst |-> lst, nd |-> nd, cnt |-> cnt, log |-> Append(log, e)]
  IN
  IF TrivialDiscard(pOld0, P.nd, P.cnt)
  THEN Out(rest, P.lst, P.nd, P.cnt, P.log, Entry("discard", FALSE, FALSE, <<>>))
  ELSE
  LET diff == hasCur /\ Count(pOld0.aAttrSet) # 0
      pOld1 == IF diff THEN ParentDiff(pOld0, pCurrent) ELSE pOld0
  IN
  IF diff /\ Count(pOld1.aAttrSet) = 0 /\ pOld1.m_pChildList = <<>> /\ pOld1.nStyleNo = 0
  THEN Out(rest, P.lst, P.nd, P.cnt, P.log, Entry("diffdrop", FALSE, FALSE, <<>>))
  ELSE
  LET mv == IF P.cnt = 0 THEN MovePos(d, P.nd, P.cnt, FALSE) ELSE [nd |-> P.nd, cnt |-> P.cnt]
      bCrsrBack == P.cnt = 0 /\ mv.nd # P.nd
      fwd == StepForward(d, bCrsrBack, mv)
  IN
  IF ~InRange(pOld1, mv.nd, mv.cnt)
  THEN Out(rest, P.lst, fwd.nd, fwd.cnt, P.log, Entry("lost", bCrsrBack, FALSE, <<>>))
  ELSE
  LET pNew == SetRTFDefaults(RemovePard(CopyStackType(pOld1, mv.nd, mv.cnt, TRUE)),
                             GetRTFDefaults)
      split == ~bCrsrBack /\ pOld1.pSttNd # mv.nd
               /\ Count(pNew.aAttrSet) # Count(pOld1.aAttrSet)
  IN
  IF split
  THEN LET e == SetEndPrevPara(d, mv.nd)
           o == FilterSplit(SplitOld(pOld1, e), chk, styles)
           n == FilterSplit(SplitNew(pNew), chk, styles)
       IN IF hasCur
          THEN Out(Append(under, Add(Add(pCurrent, o), n)), P.lst, mv.nd, mv.cnt, P.log,
                   Entry("split", FALSE, FALSE, <<o, n>>))
          ELSE Out(rest, P.lst \o <<o, n>>, mv.nd, mv.cnt, P.log,
                   Entry("split", FALSE, FALSE, <<o, n>>))
  ELSE
  LET o == FilterPlain(CloseAt(pOld1, mv),
                       hasCur, chk, styles)
  IN
  IF ~hasCur
  THEN Out(rest, Append(P.lst, o), fwd.nd, fwd.cnt, P.log,
           Entry("plain", bCrsrBack, FALSE, <<o>>))
  ELSE
  LET cur2 == Add(pCurrent, o) IN
  IF FanOutHit(bCrsrBack, cur2)
  THEN LET f == MovePos(d, mv.nd, mv.cnt, TRUE)
           pNewF == SetRTFDefaults(CopyStackType(cur2, f.nd, f.cnt, TRUE), GetRTFDefaults)
           R == AttrGroupEnd(d, chk, styles,
                  [stk |-> Append(under, cur2), lst |-> P.lst, nd |-> f.nd, cnt |-> f.cnt,
                   log |-> P.log])
       IN Out(Reopen(R.stk, pNewF), R.lst, R.nd, R.cnt, R.log,
              Entry("plain", bCrsrBack, TRUE, <<o>>))
  ELSE Out(Append(under, cur2), P.lst, fwd.nd, fwd.cnt, P.log,
           Entry("plain", bCrsrBack, FALSE, <<o>>))

\* SetAllAttrOfStk, first loop: close until the stack is empty
RECURSIVE CloseAll(_, _, _, _)
CloseAll(d, chk, styles, P) ==
  IF P.stk = <<>> THEN P ELSE CloseAll(d, chk, styles, AttrGroupEnd(d, chk, styles, P))

\* GetAttrSet_: materialise the pending scope
GetAttrSet_(stk, nd, cnt) ==
  LET pNew == IF stk # <<>> THEN CopyStackType(Last(stk), nd, cnt, FALSE)
              ELSE NewStackType(nd, cnt)
  IN Append(stk, SetRTFDefaults(pNew, GetRTFDefaults))

\* GetAttrSet (inline): the top record, materialised first when a group
\* is pending or the stack is empty
GetAttrSet(stk, newGroup, nd, cnt) ==
  IF newGroup \/ stk = <<>> THEN GetAttrSet_(stk, nd, cnt) ELSE stk

----------------------------------------------------------------------------
(* State machine: one action per token handed to NextToken, one for the   *)
(* end of Continue.  A token is <<kind, ...>>.  When input holds tokens   *)
(* the next token is its head; otherwise any token may come, up to        *)
(* MaxTokens of them.                                                     *)

\* a style record of the style table
StyleType(set) == [sName |-> "s", nBasedOn |-> 0, nOutlineNo |-> 255, aAttrSet |-> set]

\* the style table a style sheet group has left behind: style 1 sets the
\* character attribute to a non-default value
StyleSheet == <<StyleType([EmptySet EXCEPT !["chr"] = 2])>>

StyleNos == {1}

\* no table reader is running
NoReader == [in |-> "none"]

Idle(op) == [op |-> op, log |-> <<>>, before |-> <<>>, after |-> <<>>, calls |-> <<>>]

Running == eState = "Working"

\* the stack, the flush list and the cursor as a handler finds them
Cursor == [stk |-> aAttrStack, lst |-> m_AttrSetList, nd |-> insNd, cnt |-> insCnt,
           log |-> <<>>]

\* GetNextToken delivers tok
Take(tok) ==
  /\ Running
  /\ reader.in = "none"
  /\ IF input # <<>>
     THEN Head(input) = tok /\ input' = Tail(input) /\ nTok' = nTok
     ELSE nTok < MaxTokens /\ input' = input /\ nTok' = nTok + 1

Init ==
  /\ input = <<>>
  /\ nTok = 0
  /\ aAttrStack = <<>>
  /\ m_AttrSetList = <<>>
  /\ bNewGroup = FALSE
  /\ doc = <<0>>
  /\ insNd = 1
  /\ insCnt = 0
  /\ eState = "Working"
  /\ bChkStyleAttr \in BOOLEAN
  /\ m_StyleTable = StyleSheet
  /\ ev = Idle("init")
  /\ aColorTbl = <<>>
  /\ m_FontTable = <<>>
  /\ reader = NoReader

\* variant: the scope is materialised at once
GroupOpenEager ==
  /\ Take(<<"{">>)
  /\ aAttrStack' = GetAttrSet_(aAttrStack, insNd, insCnt)
  /\ bNewGroup' = TRUE
  /\ ev' = Idle("tok")
  /\ UNCHANGED <<m_AttrSetList, doc, insNd, insCnt, eState, bChkStyleAttr, m_StyleTable>>
  /\ UNCHANGED tblVars

\* case '{'
GroupOpen ==
  /\ Take(<<"{">>)
  /\ aAttrStack' = IF bNewGroup THEN GetAttrSet_(aAttrStack, insNd, insCnt) ELSE aAttrStack
  /\ bNewGroup' = TRUE
  /\ ev' = Idle("tok")
  /\ UNCHANGED <<m_AttrSetList, doc, insNd, insCnt, eState, bChkStyleAttr, m_StyleTable>>
  /\ UNCHANGED tblVars

\* variant: the pending-open flag is not looked at
GroupCloseAlways ==
  /\ Take(<<"}">>)
  /\ \E R \in {AttrGroupEnd(doc, bChkStyleAttr, m_StyleTable, Cursor)} :
        /\ aAttrStack' = R.stk
        /\ m_AttrSetList' = R.lst
        /\ insNd' = R.nd
        /\ insCnt' = R.cnt
        /\ ev' = [Idle("close") EXCEPT !.log = R.log]
  /\ bNewGroup' = FALSE
  /\ UNCHANGED <<doc, eState, bChkStyleAttr, m_StyleTable>>
  /\ UNCHANGED tblVars

\* case '}'
GroupClose ==
  /\ Take(<<"}">>)
  /\ \E R \in {IF bNewGroup THEN Cursor
                 ELSE AttrGroupEnd(doc, bChkStyleAttr, m_StyleTable, Cursor)} :
        /\ aAttrStack' = R.stk
        /\ m_AttrSetList' = R.lst
        /\ insNd' = R.nd
        /\ insCnt' = R.cnt
        /\ ev' = [Idle("close") EXCEPT !.log = R.log]
  /\ bNewGroup' = FALSE
  /\ UNCHANGED <<doc, eState, bChkStyleAttr, m_StyleTable>>
  /\ UNCHANGED tblVars

\* case RTF_TEXTTOKEN, and the single characters routed through it:
\* InsertText, then the flush list is committed last record first
TextToken ==
  /\ Take(<<"text">>)
  /\ doc' = [doc EXCEPT ![insNd] = @ + 1]
  /\ insCnt' = insCnt + 1
  /\ \E F \in {FlushFrom(doc', m_AttrSetList, Len(m_AttrSetList))} :
        ev' = [Idle("text") EXCEPT !.before = m_AttrSetList, !.after = F.after,
                                   !.calls = F.calls]
  /\ m_AttrSetList' = <<>>
  /\ UNCHANGED <<aAttrStack, bNewGroup, insNd, eState, bChkStyleAttr, m_StyleTable>>
  /\ UNCHANGED tblVars

\* case RTF_PAR: InsertPara
ParToken ==
  /\ Take(<<"par">>)
  /\ doc' = Append(doc, 0)
  /\ insNd' = insNd + 1
  /\ insCnt' = 0
  /\ ev' = Idle("tok")
  /\ UNCHANGED <<aAttrStack, m_AttrSetList, bNewGroup, eState, bChkStyleAttr, m_StyleTable>>
  /\ UNCHANGED tblVars

\* attribute token: ReadAttr( nToken, &GetAttrSet() ) puts the item into
\* the top record
AttrToken(id, v) ==
  /\ Take(<<"attr", id, v>>)
  /\ LET stk == GetAttrSet(aAttrStack, bNewGroup, insNd, insCnt)
     IN aAttrStack' = [stk EXCEPT ![Len(stk)].aAttrSet[id] = v]
  /\ bNewGroup' = FALSE
  /\ ev' = Idle("tok")
  /\ UNCHANGED <<m_AttrSetList, doc, insNd, insCnt, eState, bChkStyleAttr, m_StyleTable>>
  /\ UNCHANGED tblVars

\* style token (\s, \cs) outside the style sheet: ReadAttr sets nStyleNo
\* of the top record
StyleToken(n) ==
  /\ Take(<<"style", n>>)
  /\ LET stk == GetAttrSet(aAttrStack, bNewGroup, insNd, insCnt)
     IN aAttrStack' = [stk EXCEPT ![Len(stk)].nStyleNo = n]
  /\ bNewGroup' = FALSE
  /\ ev' = Idle("tok")
  /\ UNCHANGED <<m_AttrSetList, doc, insNd, insCnt, eState, bChkStyleAttr, m_StyleTable>>
  /\ UNCHANGED tblVars

\* SetAllAttrOfStk, second loop: commit the flush list C.lst and empty it
FlushAll(d, C) ==
  [C EXCEPT !.lst = <<>>] @@ [before |-> C.lst, flush |-> FlushFrom(d, C.lst, Len(C.lst))]

\* variant: the first loop is an if
SetAllAttrOfStkOnce(d, chk, styles, P) == FlushAll(d, AttrGroupEnd(d, chk, styles, P))

\* SetAllAttrOfStk
SetAllAttrOfStk(d, chk, styles, P) == FlushAll(d, CloseAll(d, chk, styles, P))

\* Continue returns: the token source has run dry and reports st
Continue(st) ==
  /\ Running
  /\ reader.in = "none"
  /\ input = <<>>
  /\ eState' = st
  /\ IF st # "Pending" /\ st # "Error"
     THEN \E R \in {SetAllAttrOfStk(doc, bChkStyleAttr, m_StyleTable, Cursor)} :
             /\ aAttrStack' = R.stk
             /\ m_AttrSetList' = R.lst
             /\ insNd' = R.nd
             /\ insCnt' = R.cnt
             /\ bNewGroup' = IF aAttrStack # <<>> THEN FALSE ELSE bNewGroup
             /\ ev' = [op |-> "end", log |-> R.log, before |-> R.before,
                       after |-> R.flush.after, calls |-> R.flush.calls]
     ELSE /\ UNCHANGED <<aAttrStack, m_AttrSetList, insNd, insCnt, bNewGroup>>
          /\ ev' = Idle("stop")
  /\ UNCHANGED <<input, nTok, doc, bChkStyleAttr, m_StyleTable>>
  /\ UNCHANGED tblVars

Next ==
  \/ GroupOpen
  \/ GroupClose
  \/ TextToken
  \/ ParToken
  \/ \E id \in Ids, v \in Vals : AttrToken(id, v)
  \/ \E n \in StyleNos : StyleToken(n)
  \/ \E st \in {"Accepted", "Pending", "Error"} : Continue(st)

Spec == Init /\ [][Next]_vars

TypeOK ==
  /\ bNewGroup \in BOOLEAN
  /\ insNd = Len(doc)
  /\ insCnt = doc[insNd]
  /\ eState \in {"Working", "Pending", "Error", "Accepted"}

----------------------------------------------------------------------------
(* Token streams laid down in advance: one outer group holding one or two  *)
(* sibling groups, with or without text before, between and after them.    *)

Cat(X, Y) == {x \o y : x \in X, y \in Y}
Opt == {<<>>, << <<"text">> >>}

\* what makes the outer scope: an empty group, an attribute or a style
Heads == { << <<"{">>, <<"}">> >>, << <<"attr", "chr", 1>> >>,
           << <<"attr", "par", 2>> >>, << <<"style", 1>> >>,
           << <<"attr", "chr", 1>>, <<"attr", "par", 2>> >> }

KidAttrs == { << <<"attr", "chr", 1>> >>, << <<"attr", "chr", 2>> >>,
              << <<"attr", "chr", 1>>, <<"attr", "par", 2>> >>, << <<"style", 1>> >> }

KidBodies == { << <<"text">> >>, << <<"par">> >>, << <<"text">>, <<"par">> >>,
               << <<"par">>, <<"text">> >>,
               << <<"{">>, <<"attr", "chr", 2>>, <<"text">>, <<"}">> >>,
               << <<"par">>, <<"text">>, <<"{">>, <<"attr", "chr", 2>>, <<"text">>, <<"}">> >> }

Kids == Cat({<< <<"{">> >>}, Cat(KidAttrs, Cat(KidBodies, {<< <<"}">> >>})))

Scripts ==
  Cat({<< <<"{">> >>}, Cat(Heads, Cat(Opt, Cat(Kids, Cat(Opt,
  Cat(Kids \cup {<<>>}, Cat(Opt, {<< <<"}">> >>})))))))

InitScript ==
  /\ input \in Scripts
  /\ nTok = MaxTokens
  /\ aAttrStack = <<>>
  /\ m_AttrSetList = <<>>
  /\ bNewGroup = FALSE
  /\ doc = <<0>>
  /\ insNd = 1
  /\ insCnt = 0
  /\ eState = "Working"
  /\ bChkStyleAttr = FALSE
  /\ m_StyleTable = StyleSheet
  /\ ev = Idle("init")
  /\ aColorTbl = <<>>
  /\ m_FontTable = <<>>
  /\ reader = NoReader

SpecScript == InitScript /\ [][Next]_vars

----------------------------------------------------------------------------
(* A parent one close away from the fan-out threshold: the state after     *)
(* "{ \chr1 {\chr2 x}{\chr2 x}... {\chr2" in one paragraph, with or        *)
(* without a grandparent scope around it.                                  *)

FanTokens == 3     \* tokens dispatched from there

FanKid(i) == [NewStackType(1, i - 1) EXCEPT !.aAttrSet["chr"] = 2, !.nEndCnt = i]
RECURSIVE FanKids(_, _)
FanKids(lo, hi) ==
  IF lo > hi THEN <<>>
  ELSE IF lo = hi THEN <<FanKid(lo)>>
  ELSE FanKids(lo, Mid(lo, hi)) \o FanKids(Mid(lo, hi) + 1, hi)
FanParent(k) ==
  [NewStackType(1, 0) EXCEPT !.aAttrSet["chr"] = 1, !.m_pChildList = FanKids(1, k)]
FanOpenKid(k) == [NewStackType(1, k) EXCEPT !.aAttrSet["chr"] = 2]
FanGrand == [NewStackType(1, 0) EXCEPT !.aAttrSet["par"] = 2]

InitFan ==
  /\ input = <<>>
  /\ nTok = MaxTokens - FanTokens
  /\ \E k \in {FanOut - 1, FanOut} :
       /\ aAttrStack \in { <<FanParent(k), FanOpenKid(k)>>,
                           <<FanGrand, FanParent(k), FanOpenKid(k)>> }
       /\ doc = <<k>>
       /\ insCnt = k
  /\ m_AttrSetList = <<>>
  /\ bNewGroup = FALSE
  /\ insNd = 1
  /\ eState = "Working"
  /\ bChkStyleAttr = FALSE
  /\ m_StyleTable = StyleSheet
  /\ ev = Idle("init")
  /\ aColorTbl = <<>>
  /\ m_FontTable = <<>>
  /\ reader = NoReader

SpecFan == InitFan /\ [][Next]_vars

----------------------------------------------------------------------------
(* Properties *)

\* the calls of AttrGroupEnd made by the last token, in the order they returned
Closes == {ev.log[k] : k \in 1..Len(ev.log)}
Pieces(e) == {e.pieces[k] : k \in 1..Len(e.pieces)}

\* C1 - Inheritance redundancy: when AttrGroupEnd closes a scope under a
\* parent and keeps the record, no attribute left in the record has the
\* value the parent's own collection holds for that id; and after a '}'
\* the kept record is the last entry of the parent's child list.
C1_InheritanceRedundancy ==
  /\ \A e \in Closes : e.hasCur =>
       \A p \in Pieces(e), i \in Ids :
          p.aAttrSet[i] # Unset => p.aAttrSet[i] # e.cur.aAttrSet[i]
  /\ (ev.op = "close" /\ ev.log # <<>>) =>
       LET e == Last(ev.log) IN
       (e.hasCur /\ ~e.fan /\ e.pieces # <<>>) =>
          LET kl == Last(aAttrStack).m_pChildList
          IN SubSeq(kl, Len(kl) - Len(e.pieces) + 1, Len(kl)) = e.pieces

\* a kept record that had an attribute equal to its parent's
C1_Witness ==
  \E e \in Closes :
     /\ e.hasCur /\ e.pieces # <<>>
     /\ \E i \in Ids : e.old.aAttrSet[i] # Unset /\ e.old.aAttrSet[i] = e.cur.aAttrSet[i]
     /\ \E i \in Ids : e.pieces[1].aAttrSet[i] # Unset

\* a scope that holds one paragraph attribute and one character attribute
HoldsBoth(rec) == \A i \in Ids : rec.aAttrSet[i] # Unset
OnlyIds(rec, S) == \A i \in Ids : (rec.aAttrSet[i] # Unset) <=> (i \in S)

\* the two ranges of a split made with the cursor at (e.nd, e.cnt)
SplitRanges(e) ==
  /\ Len(e.pieces) = 2
  /\ e.pieces[1].pSttNd = e.old.pSttNd /\ e.pieces[1].nSttCnt = e.old.nSttCnt
  /\ e.pieces[1].pEndNd = e.nd - 1 /\ e.pieces[1].nEndCnt = doc[e.nd - 1]
  /\ e.pieces[2].pSttNd = e.nd /\ e.pieces[2].nSttCnt = 0
  /\ e.pieces[2].pEndNd = e.nd /\ e.pieces[2].nEndCnt = e.cnt

\* C2 as stated - the earlier piece of a split owns only the paragraph
\* attribute, the later piece only the character attribute.
C2_Original ==
  \A e \in Closes :
     (e.res = "split" /\ HoldsBoth(e.old) /\ ~e.hasCur /\ ~bChkStyleAttr) =>
        /\ SplitRanges(e)
        /\ OnlyIds(e.pieces[1], PardIds)
        /\ OnlyIds(e.pieces[2], PlainIds)

\* C2 - Paragraph split: a scope opened before a paragraph boundary and
\* closed after it with the cursor inside a paragraph, holding a paragraph
\* attribute A and a character attribute B, is closed into two records:
\* the earlier ends at the previous paragraph's end and owns A and B, the
\* later covers the cursor's paragraph up to the cursor and owns only B;
\* parent-diff and style filtering only take attributes away from them.
C2_ParagraphSplit ==
  \A e \in Closes :
     (e.res = "split" /\ HoldsBoth(e.old)) =>
        /\ SplitRanges(e)
        /\ e.pieces[2].aAttrSet["par"] = Unset
        /\ e.pieces[2].nStyleNo = 0
        /\ e.pieces[1].nStyleNo = e.old.nStyleNo
        /\ \A k \in 1..2, i \in Ids : e.pieces[k].aAttrSet[i] \in {Unset, e.old.aAttrSet[i]}
        /\ (~e.hasCur /\ ~bChkStyleAttr) =>
              /\ e.pieces[1].aAttrSet = e.old.aAttrSet
              /\ OnlyIds(e.pieces[2], PlainIds)
              /\ e.pieces[2].aAttrSet["chr"] = e.old.aAttrSet["chr"]

\* an outermost scope with both attributes was split
C2_Witness ==
  \E e \in Closes :
     /\ e.res = "split" /\ HoldsBoth(e.old) /\ ~e.hasCur /\ ~bChkStyleAttr
     /\ HoldsBoth(e.pieces[1])
     /\ ev.op = "close" /\ m_AttrSetList = e.pieces

\* C4 - Zero-span discard: a '}' that closes a scope whose start is the
\* cursor position, with no children and no style, pops the scope and
\* leaves the parent's child list and the flush list as they were.
C4_ZeroSpanDiscard ==
  [][ ( /\ ev'.op = "close" /\ ~bNewGroup /\ aAttrStack # <<>>
        /\ Last(aAttrStack).pSttNd = insNd /\ Last(aAttrStack).nSttCnt = insCnt
        /\ Last(aAttrStack).m_pChildList = <<>>
        /\ Last(aAttrStack).nStyleNo = 0 )
      => ( /\ aAttrStack' = Front(aAttrStack)
           /\ m_AttrSetList' = m_AttrSetList
           /\ insNd' = insNd /\ insCnt' = insCnt ) ]_vars

\* a scope with attributes and no content was closed
C4_Witness ==
  /\ ev.op = "close" /\ Len(ev.log) = 1
  /\ LET e == ev.log[1] IN
       /\ e.res = "discard"
       /\ e.old.pSttNd = e.nd /\ e.old.nSttCnt = e.cnt
       /\ e.old.nStyleNo = 0
       /\ \E i \in Ids : e.old.aAttrSet[i] # Unset

\* what a close that attached e.pieces to its parent left behind
Grown(e) == e.cur.m_pChildList \o e.pieces

\* the parent stays open, with the closed record appended
StaysOpen(e) ==
  /\ Len(aAttrStack) = e.depth - 1
  /\ Last(aAttrStack).m_pChildList = Grown(e)
  /\ Last(aAttrStack).pSttNd = e.cur.pSttNd /\ Last(aAttrStack).nSttCnt = e.cur.nSttCnt

\* the parent was closed with the record in it, and a fresh scope with the
\* parent's attributes, starting at the cursor, is on the stack in its place
ClosedEarly(e) ==
  /\ Len(aAttrStack) = e.depth - 1
  /\ Last(aAttrStack).m_pChildList = <<>>
  /\ Last(aAttrStack).aAttrSet = e.cur.aAttrSet
  /\ Last(aAttrStack).pSttNd = insNd /\ Last(aAttrStack).nSttCnt = insCnt
  /\ LET into == IF e.depth = 2 THEN m_AttrSetList
                 ELSE aAttrStack[Len(aAttrStack) - 1].m_pChildList
     IN into # <<>> /\ Last(into).m_pChildList = Grown(e)

\* the last '}' attached a record, or the two pieces of a split one, to a parent
Attached ==
  /\ ev.op = "close" /\ ev.log # <<>> /\ Last(ev.log).hasCur
  /\ Last(ev.log).res \in {"plain", "split"}

\* C3 as stated - at every cursor position a child list that exceeds the
\* threshold has its parent closed early.
C3_Original ==
  Attached =>
    LET e == Last(ev.log) IN
    IF FanOut < Len(Grown(e)) THEN ClosedEarly(e) ELSE StaysOpen(e)

\* C3 - Fan-out bound: when a close that stepped the cursor back from the
\* start of a paragraph appends a record to the parent's child list and the
\* list then holds more than 50 records, the parent is closed early and a
\* fresh scope replaces it; a close at any other cursor position leaves the
\* parent open whatever the length of its list.
C3_FanOutBound ==
  Attached =>
    LET e == Last(ev.log) IN
    IF e.back /\ FanOut < Len(Grown(e)) THEN ClosedEarly(e) ELSE StaysOpen(e)

\* the 51st child made the parent close early
C3_Witness ==
  /\ Attached
  /\ Last(ev.log).back /\ Len(Grown(Last(ev.log))) = FanOut + 1
  /\ ClosedEarly(Last(ev.log))

----------------------------------------------------------------------------
(* Trees of records *)

Kid(node, k) == node.m_pChildList[k]
KidIdx(node) == 1..Len(node.m_pChildList)

RECURSIVE SubTrees(_)
SubTrees(node) == {node} \cup UNION {SubTrees(Kid(node, k)) : k \in KidIdx(node)}

\* the records the last flush ran SetAttrSet on, and the records below them
Flushed == UNION {SubTrees(ev.before[n]) : n \in 1..Len(ev.before)}

\* next continues prev in the document: it starts where prev ends, or at
\* the start of the paragraph after the one prev ends
Continues(prev, next) ==
  \/ prev.pEndNd = next.pSttNd /\ prev.nEndCnt = next.nSttCnt
  \/ next.nSttCnt = 0 /\ next.pSttNd = prev.pEndNd + 1 /\ doc[prev.pEndNd] = prev.nEndCnt

\* the children of node are contiguous and span exactly node's range
Covered(node) ==
  /\ node.m_pChildList # <<>>
  /\ Kid(node, 1).pSttNd = node.pSttNd /\ Kid(node, 1).nSttCnt = node.nSttCnt
  /\ Last(node.m_pChildList).pEndNd = node.pEndNd
  /\ Last(node.m_pChildList).nEndCnt = node.nEndCnt
  /\ \A k \in 1..(Len(node.m_pChildList) - 1) : Continues(Kid(node, k), Kid(node, k + 1))

\* after Compress node holds id with value v and no child holds id
Pulled(node, id, v) ==
  LET c == Compress(doc, node)
  IN c.aAttrSet[id] = v /\ \A k \in KidIdx(c) : Kid(c, k).aAttrSet[id] = Unset

\* C5 as stated - every child holds the id with the same value.
C5_Original ==
  \A node \in Flushed, id \in Ids, v \in Vals :
     (Covered(node) /\ \A k \in KidIdx(node) : Kid(node, k).aAttrSet[id] = v)
        => Pulled(node, id, v)

\* C5 - Compression coverage: when the children of a node are contiguous,
\* span exactly the node's range, and all hold attribute id A with the same
\* value - the second and later children after Compress has run on their own
\* subtrees - then after Compress the node holds A with that value and no
\* child holds A.
C5_CompressionCoverage ==
  \A node \in Flushed, id \in Ids, v \in Vals :
     ( /\ Covered(node)
       /\ Kid(node, 1).aAttrSet[id] = v
       /\ \A k \in KidIdx(node) : k > 1 => Compress(doc, Kid(node, k)).aAttrSet[id] = v )
        => Pulled(node, id, v)

\* a node with two covering children took over their attribute, replacing its own
C5_Witness ==
  \E node \in Flushed, id \in Ids, v \in Vals :
     /\ Covered(node) /\ Len(node.m_pChildList) >= 2
     /\ \A k \in KidIdx(node) : Kid(node, k).aAttrSet[id] = v
     /\ \E k \in KidIdx(node) : k > 1 /\ Kid(node, k).m_pChildList # <<>>
     /\ node.aAttrSet[id] # v
     /\ Pulled(node, id, v)

RECURSIVE NoZeroWidth(_)
NoZeroWidth(node) ==
  /\ PosLess(node.pSttNd, node.nSttCnt, node.pEndNd, node.nEndCnt)
  /\ \A k \in KidIdx(node) : NoZeroWidth(Kid(node, k))

\* C6 as stated - a second run of Compress changes nothing, zero-width
\* children included.
C6_Original ==
  \A node \in Flushed : Compress(doc, Compress(doc, node)) = Compress(doc, node)

\* C6 - Compression idempotence: on a tree in which every record ends after
\* its start, running Compress on the result of Compress changes nothing.
C6_CompressionIdempotence ==
  \A node \in Flushed :
     NoZeroWidth(node) => Compress(doc, Compress(doc, node)) = Compress(doc, node)

\* Compress merged the children of a tree without zero-width records
C6_Witness ==
  \E node \in Flushed :
     /\ NoZeroWidth(node) /\ Len(node.m_pChildList) >= 2
     /\ Compress(doc, node).aAttrSet # node.aAttrSet
     /\ Compress(doc, node).m_pChildList # <<>>

----------------------------------------------------------------------------
(* The calls of SetAttrInDoc made by the last flush *)

RECURSIVE PathsIn(_, _)
PathsIn(node, path) ==
  {path} \cup UNION {PathsIn(Kid(node, k), Append(path, k)) : k \in KidIdx(node)}

RECURSIVE NodeAt(_, _)
NodeAt(node, path) == IF path = <<>> THEN node ELSE NodeAt(Kid(node, Head(path)), Tail(path))

\* the places of the records in the flush list as it was committed
FlushPaths == UNION {PathsIn(ev.after[n], <<n>>) : n \in 1..Len(ev.after)}
Committed(path) == NodeAt(ev.after[Head(path)], Tail(path))
CallIdx == 1..Len(ev.calls)
CallsFor(path) == {k \in CallIdx : ev.calls[k].path = path}

\* C7 - Commit exactly once: a flush hands every record of the flush list
\* and below it that holds an attribute or a style number to SetAttrInDoc
\* exactly once, with the record's range and attributes, hands over no
\* other record, and leaves the flush list empty.
C7_CommitExactlyOnce ==
  /\ \A path \in FlushPaths :
        LET r == Committed(path)
        IN Cardinality(CallsFor(path)) =
             IF (\E i \in Ids : r.aAttrSet[i] # Unset) \/ r.nStyleNo # 0 THEN 1 ELSE 0
  /\ \A k \in CallIdx :
        /\ ev.calls[k].path \in FlushPaths
        /\ LET r == Committed(ev.calls[k].path)
           IN /\ ev.calls[k].aAttrSet = r.aAttrSet /\ ev.calls[k].nStyleNo = r.nStyleNo
              /\ ev.calls[k].pSttNd = r.pSttNd /\ ev.calls[k].nSttCnt = r.nSttCnt
              /\ ev.calls[k].pEndNd = r.pEndNd /\ ev.calls[k].nEndCnt = r.nEndCnt
  /\ Len(ev.after) = Len(ev.before)
  /\ ev.op \in {"text", "end"} => m_AttrSetList = <<>>

\* a flush of a tree in which one record carries only a style number and
\* another carries nothing
C7_Witness ==
  /\ Len(ev.calls) >= 2
  /\ \E path \in FlushPaths : Committed(path).nStyleNo # 0
                              /\ Committed(path).aAttrSet = EmptySet
  /\ \E path \in FlushPaths : CallsFor(path) = {}

StartLeq(a, b) == PosLeq(a.pSttNd, a.nSttCnt, b.pSttNd, b.nSttCnt)
IsPrefix(p, q) == Len(p) < Len(q) /\ SubSeq(q, 1, Len(p)) = p
Siblings(p, q) == Len(p) = Len(q) /\ Front(p) = Front(q) /\ p # q

\* C8 as stated - the calls of a flush are in ascending document order.
C8_Original ==
  \A k \in CallIdx : k < Len(ev.calls) => StartLeq(ev.calls[k], ev.calls[k + 1])

\* C8 - Commit order: a flush takes the records of the flush list last
\* added first; within the tree of one record it hands over a record before
\* the records below it and the children of one record in child-list order,
\* which is ascending document order.
C8_CommitOrder ==
  \A k, l \in CallIdx : k < l =>
     LET a == ev.calls[k]
         b == ev.calls[l]
     IN /\ Head(a.path) >= Head(b.path)
        /\ ~IsPrefix(b.path, a.path)
        /\ IsPrefix(a.path, b.path) => StartLeq(a, b)
        /\ (Siblings(a.path, b.path) /\ Len(a.path) > 1) =>
              Last(a.path) < Last(b.path) /\ StartLeq(a, b)
        /\ (Siblings(a.path, b.path) /\ Len(a.path) = 1) =>
              StartLeq(b, a)

\* both pieces of a split outermost scope were committed, the later first
C8_Witness ==
  /\ ev.op = "end"
  /\ Len(ev.before) = 2
  /\ ev.before[1].pEndNd < ev.before[2].pSttNd
  /\ \E k, l \in CallIdx :
        /\ k < l /\ Head(ev.calls[k].path) > Head(ev.calls[l].path)
        /\ ~StartLeq(ev.calls[k], ev.calls[l])

SameId(a, b) == \E i \in Ids : a.aAttrSet[i] # Unset /\ b.aAttrSet[i] # Unset
Overlap(a, b) ==
  /\ PosLess(a.pSttNd, a.nSttCnt, b.pEndNd, b.nEndCnt)
  /\ PosLess(b.pSttNd, b.nSttCnt, a.pEndNd, a.nEndCnt)

SameTree(p, q) == Head(p) = Head(q) /\ p # q

RECURSIVE Closed(_, _)
Closed(P, n) ==
  IF n = 0 THEN P ELSE Closed(AttrGroupEnd(doc, bChkStyleAttr, m_StyleTable, P), n - 1)

\* C10 - Force-close at parse end: when Continue ends with a status other
\* than Pending and Error, every open scope is closed by AttrGroupEnd, one
\* call for each, the stack and the flush list end empty, and every record
\* queued by then that holds an attribute or a style number is committed.
C10_ForceCloseAtEnd ==
  [][ (eState' # eState /\ eState' \notin {"Pending", "Error"}) =>
        LET R == Closed(Cursor, Len(aAttrStack))
        IN /\ aAttrStack' = <<>>
           /\ m_AttrSetList' = <<>>
           /\ R.stk = <<>>
           /\ ev'.before = R.lst
           /\ ev'.log = R.log
           /\ \A n \in 1..Len(R.lst) :
                 (R.lst[n].aAttrSet # EmptySet \/ R.lst[n].nStyleNo # 0)
                    => \E k \in 1..Len(ev'.calls) : ev'.calls[k].path = <<n>> ]_vars

\* the end of the parse closed two open scopes and committed their records
C10_Witness ==
  /\ eState = "Accepted" /\ ev.op = "end"
  /\ Len(ev.log) >= 2
  /\ \A k \in 1..Len(ev.log) : ev.log[k].res \in {"plain", "split"}
  /\ Len(ev.calls) >= 2
  /\ aAttrStack = <<>> /\ m_AttrSetList = <<>>

----------------------------------------------------------------------------
(* The token dispatcher and the flush list *)

\* the calls made for the records of the flush list themselves
RootCalls(calls) == SelectSeq(calls, LAMBDA c : Len(c.path) = 1)
IsListPrefix(s, t) == Len(s) <= Len(t) /\ SubSeq(t, 1, Len(s)) = s

\* C11 - Flush on text: a text token inserts its text, then commits every
\* record of the flush list, the last added first, and leaves the flush
\* list empty; a paragraph token, an attribute token and a group delimiter
\* commit nothing and remove no record from the flush list.
C11_FlushOnText ==
  [][ /\ ev'.op = "text" =>
           /\ doc' = [doc EXCEPT ![insNd] = @ + 1]
           /\ insNd' = insNd /\ insCnt' = insCnt + 1
           /\ ev'.before = m_AttrSetList
           /\ m_AttrSetList' = <<>>
           /\ \A n \in 1..Len(m_AttrSetList) :
                 (m_AttrSetList[n].aAttrSet # EmptySet \/ m_AttrSetList[n].nStyleNo # 0)
                    => \E k \in 1..Len(ev'.calls) : ev'.calls[k].path = <<n>>
           /\ LET rc == RootCalls(ev'.calls)
              IN \A k \in 1..Len(rc) - 1 : Head(rc[k].path) > Head(rc[k + 1].path)
      /\ ev'.op \in {"tok", "close"} =>
           /\ ev'.calls = <<>>
           /\ IsListPrefix(m_AttrSetList, m_AttrSetList')
           /\ doc' = doc \/ (doc' = Append(doc, 0) /\ m_AttrSetList' = m_AttrSetList) ]_vars

\* a text token found the two pieces of a split outermost scope in the
\* flush list and committed the later piece first
C11_Witness ==
  /\ ev.op = "text"
  /\ Len(ev.before) = 2
  /\ Len(ev.calls) = 2
  /\ ev.calls[1].path = <<2>> /\ ev.calls[2].path = <<1>>
  /\ m_AttrSetList = <<>>

----------------------------------------------------------------------------
(* Closed records: the records of the child lists of the open scopes and   *)
(* of the flush list, before a flush compresses them                       *)

SeqSet(s) == {s[k] : k \in 1..Len(s)}
Held ==
  UNION {SubTrees(r) : r \in UNION {SeqSet(aAttrStack[k].m_pChildList) : k \in 1..Len(aAttrStack)}}
  \cup UNION {SubTrees(r) : r \in SeqSet(m_AttrSetList) \cup SeqSet(ev.before)}

EndLeq(a, b) == PosLeq(a.pEndNd, a.nEndCnt, b.pEndNd, b.nEndCnt)
Inside(c, rec) == StartLeq(rec, c) /\ EndLeq(c, rec)
Before(a, b) == PosLeq(a.pEndNd, a.nEndCnt, b.pSttNd, b.nSttCnt)
Nested(rec) ==
  /\ \A k \in KidIdx(rec) : Inside(Kid(rec, k), rec)
  /\ \A k, l \in KidIdx(rec) : k < l => Before(Kid(rec, k), Kid(rec, l))

\* C12 - Child ranges nest: in every closed record held in a child list or
\* in the flush list each child's range lies inside the record's own range
\* and the children are in ascending order and do not overlap, the earlier
\* piece of a paragraph split included.
C12_ChildRangesNest == \A rec \in Held : Nested(rec)

\* where the cursor stood for the range test of the close e
Stepped(e) ==
  IF e.back THEN MovePos(doc, e.nd, e.cnt, FALSE) ELSE [nd |-> e.nd, cnt |-> e.cnt]
ZeroWidth(rec) == rec.pSttNd = rec.pEndNd /\ rec.nSttCnt = rec.nEndCnt
StartsAt(rec, c) == rec.pSttNd = c.nd /\ rec.nSttCnt = c.cnt
EndsAt(rec, c) == rec.pEndNd = c.nd /\ rec.nEndCnt = c.cnt

\* C13 as stated - no record in a child list or in the flush list has start
\* equal to end.
C13_Original == \A rec \in Held : ~ZeroWidth(rec)

\* C13 - Attached records: a closed scope is given an end position and
\* attached to its parent or queued in the flush list exactly when its start
\* is at or before the (possibly stepped-back) cursor; the unsplit record
\* ends at that cursor and has start equal to end exactly when the close
\* stepped the cursor back onto the record's start; the later piece of a
\* split starts before its end.
C13_AttachedRecords ==
  \A e \in Closes :
     LET c == Stepped(e) IN
     /\ e.res \in {"plain", "split"} => PosLeq(e.old.pSttNd, e.old.nSttCnt, c.nd, c.cnt)
     /\ e.res = "lost" => ~PosLeq(e.old.pSttNd, e.old.nSttCnt, c.nd, c.cnt)
     /\ e.res = "plain" =>
           /\ EndsAt(e.pieces[1], c)
           /\ ZeroWidth(e.pieces[1]) <=> (e.back /\ StartsAt(e.old, c))
     /\ e.res = "split" =>
           /\ EndsAt(e.pieces[2], c)
           /\ PosLess(e.pieces[2].pSttNd, e.pieces[2].nSttCnt, c.nd, c.cnt)
           /\ StartLeq(e.pieces[1], e.pieces[2])

\* a scope opened at the end of a paragraph and closed at the start of the
\* next was attached with start equal to end
C13_Witness ==
  \E e \in Closes :
     /\ e.res = "plain" /\ e.back
     /\ ZeroWidth(e.pieces[1])
     /\ e.pieces[1] \in Held

RangeOrdered(rec) == PosLeq(rec.pSttNd, rec.nSttCnt, rec.pEndNd, rec.nEndCnt)

\* C14 - Range order: every record held in a child list or in the flush
\* list has start at or before end in document order, whichever path
\* closed it: plain close, step back at a paragraph start, paragraph split
\* or fan-out early close.
C14_RangeOrder == \A rec \in Held : RangeOrdered(rec)

\* the end of the parse split the outermost scope; its earlier piece holds
\* a parent that the fan-out rule closed early, after a step back
C14_Witness ==
  /\ ev.op = "end"
  /\ Len(ev.before) = 2
  /\ \E e \in Closes : e.res = "split"
  /\ \E rec \in SubTrees(ev.before[1]) :
        /\ Len(rec.m_pChildList) = FanOut + 1
        /\ rec.pEndNd < insNd
  /\ \E rec \in SubTrees(ev.before[1]) : rec.pSttNd = insNd /\ rec.pEndNd = insNd

\* C15 - Cursor restored: AttrGroupEnd leaves the insertion cursor at the
\* position it had on entry: a '}' and the closes at the end of the parse
\* leave the cursor where it was, and every call they make, the nested call
\* of the fan-out rule included, is entered with the cursor there.
C15_CursorRestored ==
  [][ ev'.op \in {"close", "end"} =>
        /\ insNd' = insNd /\ insCnt' = insCnt
        /\ \A k \in 1..Len(ev'.log) :
              ev'.log[k].nd = insNd /\ ev'.log[k].cnt = insCnt ]_vars

\* a '}' at a paragraph start stepped the cursor back, the fan-out rule
\* closed the parent in a nested call, and the cursor is at the paragraph
\* start again
C15_Witness ==
  /\ ev.op = "close"
  /\ Len(ev.log) = 2
  /\ \E e \in Closes : e.fan /\ e.back
  /\ \A e \in Closes : e.back /\ e.res = "plain"
  /\ insCnt = 0 /\ insNd = 2

\* C16 - Empty group close: a '}' dispatched while bNewGroup is set clears
\* the flag and leaves the scope stack, the flush list and the cursor as
\* they are; a '}' dispatched with the flag clear runs close resolution on
\* the top of the stack: the top record leaves the stack and is the record
\* the resolution worked on.
C16_EmptyGroupClose ==
  [][ ev'.op = "close" =>
        /\ bNewGroup' = FALSE
        /\ (bNewGroup \/ aAttrStack = <<>>) =>
              /\ aAttrStack' = aAttrStack /\ m_AttrSetList' = m_AttrSetList
              /\ insNd' = insNd /\ insCnt' = insCnt
              /\ ev'.log = <<>>
        /\ (~bNewGroup /\ aAttrStack # <<>>) =>
              /\ Len(aAttrStack') = Len(aAttrStack) - 1
              /\ ev'.log # <<>>
              /\ Last(ev'.log).old = Last(aAttrStack)
              /\ Last(ev'.log).depth = Len(aAttrStack) ]_vars

\* the '}' of an empty group left an open scope with attributes on the stack
C16_Witness ==
  /\ ev.op = "close"
  /\ ev.log = <<>>
  /\ aAttrStack # <<>> /\ Last(aAttrStack).aAttrSet # EmptySet
  /\ insCnt > 0
  /\ ~bNewGroup

----------------------------------------------------------------------------
(* Resource tables.  NextToken hands the token source to a table reader    *)
(* on the table's introducing token; the reader takes tokens until the     *)
(* group's closing brace, which it hands back to the dispatcher, or until  *)
(* the parser stops working.  One action per token a reader takes.  A text *)
(* token is a sequence of characters.                                      *)

\* variant: the value is kept at its full width
ToUInt8Wide(v) == v

ToUInt8(v) == v % 256                                  \* sal_uInt8(nTokenValue)
ToShort(v) == ((v + 32768) % 65536) - 32768            \* static_cast<short>(nTokenValue)
ToUInt16(v) == v % 65536                               \* sal_uInt16

\* the scope handling is not touched by a table reader
stackVars == <<input, aAttrStack, m_AttrSetList, bNewGroup, doc, insNd, insCnt>>

\* GetNextToken inside the reader of table kind: one more token, of at most bound
TakeIn(kind, bound) ==
  /\ Running
  /\ reader.in = kind
  /\ nTok < bound
  /\ nTok' = nTok + 1

\* the table's introducing token reaches NextToken
TakeTable(bound) ==
  /\ Running
  /\ reader.in = "none"
  /\ nTok < bound
  /\ nTok' = nTok + 1

\* the reader of table kind has found a token other than the closing brace
\* after a group it had filtered out
Malformed(kind) == [Idle("malformed") EXCEPT !.log = <<[in |-> kind]>>]

\* rStr.indexOf( ";" ) is not -1
HasSemicolon(str) == \E k \in 1..Len(str) : str[k] = ";"

(* Color table: SvxRTFParser::ReadColorTable *)

ColorTokens == 5     \* tokens of a color table group

\* Color( nRed, nGreen, nBlue ) and COL_AUTO
Color(nRed, nGreen, nBlue) == [t |-> 0, r |-> nRed, g |-> nGreen, b |-> nBlue]
COL_AUTO == [t |-> 255, r |-> 255, g |-> 255, b |-> 255]

ChannelVals == {0, 128, 255, 511}
ColorTexts == { <<";">>, <<" ", ";">>, <<"x">> }

\* variant: the substitution does not look at the table
NewColorAnywhere(tbl, nRed, nGreen, nBlue) ==
  IF nRed = 255 /\ nGreen = 255 /\ nBlue = 255
  THEN COL_AUTO ELSE Color(nRed, nGreen, nBlue)

\* variant: the first entry is never substituted
NewColorPlain(tbl, nRed, nGreen, nBlue) == Color(nRed, nGreen, nBlue)

\* the color that "one color is finished" puts into the table
NewColor(tbl, nRed, nGreen, nBlue) ==
  IF tbl = <<>> /\ nRed = 255 /\ nGreen = 255 /\ nBlue = 255
  THEN COL_AUTO ELSE Color(nRed, nGreen, nBlue)

\* case RTF_COLORTBL: ReadColorTable starts.  Besides the three locals the
\* reader keeps count of what the properties speak of: the channels given
\* since the last entry, with the values of their tokens, and the entries
\* this group has made.
ColorTbl ==
  /\ TakeTable(ColorTokens)
  /\ reader' = [in |-> "color", nRed |-> 255, nGreen |-> 255, nBlue |-> 255,
                given |-> {}, nTokenValue |-> <<>>, entries |-> 0]
  /\ ev' = Idle("color")
  /\ UNCHANGED <<stackVars, eState, bChkStyleAttr, m_StyleTable, aColorTbl, m_FontTable>>

\* case RTF_RED, RTF_GREEN, RTF_BLUE
ColorChannel(ch, v) ==
  /\ TakeIn("color", ColorTokens)
  /\ reader' = [reader EXCEPT ![ch] = ToUInt8(v), !.given = @ \cup {ch},
                               !.nTokenValue = (ch :> v) @@ @]
  /\ ev' = Idle("color")
  /\ UNCHANGED <<stackVars, eState, bChkStyleAttr, m_StyleTable, aColorTbl, m_FontTable>>

\* case ';', and the text token that holds a ';'
ColorEntry(str) ==
  /\ TakeIn("color", ColorTokens)
  /\ IF HasSemicolon(str)
     THEN /\ aColorTbl' = Append(aColorTbl,
                                 NewColor(aColorTbl, reader.nRed, reader.nGreen, reader.nBlue))
          /\ reader' = [reader EXCEPT !.nRed = 0, !.nGreen = 0, !.nBlue = 0,
                                      !.given = {}, !.nTokenValue = <<>>,
                                      !.entries = @ + 1]
          /\ ev' = [Idle("color") EXCEPT !.log =
                      <<[at |-> Len(aColorTbl) + 1, nTokenValue |-> reader.nTokenValue]>>]
     ELSE UNCHANGED <<aColorTbl, reader>> /\ ev' = Idle("color")
  /\ UNCHANGED <<stackVars, eState, bChkStyleAttr, m_StyleTable, m_FontTable>>

\* the closing brace ends the loop
ColorEnd ==
  /\ TakeIn("color", ColorTokens + 1)
  /\ reader' = NoReader
  /\ ev' = Idle("color")
  /\ UNCHANGED <<stackVars, eState, bChkStyleAttr, m_StyleTable, aColorTbl, m_FontTable>>

\* the token source stops inside the group: IsParserWorking() ends the loop
ColorStop(st) ==
  /\ TakeIn("color", ColorTokens + 1)
  /\ eState' = st
  /\ reader' = NoReader
  /\ ev' = Idle("color")
  /\ UNCHANGED <<stackVars, bChkStyleAttr, m_StyleTable, aColorTbl, m_FontTable>>

\* CallParser has cleared the tables, no token was read
InitTables ==
  /\ input = <<>>
  /\ nTok = 0
  /\ aAttrStack = <<>>
  /\ m_AttrSetList = <<>>
  /\ bNewGroup = FALSE
  /\ doc = <<0>>
  /\ insNd = 1
  /\ insCnt = 0
  /\ eState = "Working"
  /\ bChkStyleAttr \in BOOLEAN
  /\ m_StyleTable = <<>>
  /\ ev = Idle("init")
  /\ aColorTbl = <<>>
  /\ m_FontTable = <<>>
  /\ reader = NoReader

NextColor ==
  \/ ColorTbl
  \/ \E ch \in {"nRed", "nGreen", "nBlue"}, v \in ChannelVals : ColorChannel(ch, v)
  \/ \E str \in ColorTexts : ColorEntry(str)
  \/ ColorEnd
  \/ \E st \in {"Pending", "Error"} : ColorStop(st)

SpecColor == InitTables /\ [][NextColor]_vars

----------------------------------------------------------------------------
(* Font table: SvxRTFParser::ReadFontTable *)

FontTokens == 9      \* tokens of a font table group

\* comphelper::string::stripStart, stripEnd
RECURSIVE StripStart(_)
StripStart(str) == IF str # <<>> /\ Head(str) = " " THEN StripStart(Tail(str)) ELSE str
RECURSIVE StripEnd(_)
StripEnd(str) == IF str # <<>> /\ Last(str) = " " THEN StripEnd(Front(str)) ELSE str

\* SvxRTFParser::DelCharAtEnd
DelCharAtEnd(rStr, cDel) ==
  LET a == StripStart(rStr)
      b == StripEnd(a)
  IN IF b # <<>> /\ Last(b) = cDel THEN Front(b) ELSE b

\* new vcl::Font, with SetCharSet( nSystemChar )
NewFont == [FamilyName |-> <<>>, Family |-> "DONTKNOW", Pitch |-> "DONTKNOW",
            CharSet |-> "SYSTEM"]

\* rtl_getTextEncodingFromWindowsCharset
CharsetOf(v) == IF ToUInt8(v) = 2 THEN "SYMBOL" ELSE IF ToUInt8(v) = 0 THEN "MS_1252" ELSE "OTHER"

\* std::map::insert: the entry is added unless the key is there already
MapInsert(tbl, key, val) == IF key \in DOMAIN tbl THEN tbl ELSE (key :> val) @@ tbl

\* std::map::erase( key )
MapErase(tbl, key) == [k \in DOMAIN tbl \ {key} |-> tbl[k]]

FontNos == {0, 1}
FontTexts == { <<"A", ";">>, <<"B", ";">>, <<";">> }
FontFamilies == {"ROMAN", "TECH"}
FontCharsets == {-1, 2}
FontPitches == {1, 3}

\* "one font is ready": the test after the switch, and what it does
FontReady(r, bCheckNewFont) == bCheckNewFont /\ 1 >= r.nOpenBrakets /\ r.sFntNm # <<>>
FontName(r) == IF r.sAltNm # <<>> THEN r.sFntNm \o <<";">> \o r.sAltNm ELSE r.sFntNm
FontPair(r) == [key |-> r.nInsFontNo, font |-> [r.pFont EXCEPT !.FamilyName = FontName(r)]]
FontInserted(tbl, r) == MapInsert(tbl, FontPair(r).key, FontPair(r).font)
FontNext(r) == [r EXCEPT !.pFont = NewFont, !.sAltNm = <<>>, !.sFntNm = <<>>]

\* the reader returns when the loop condition fails
FontLoop(r) == IF r.nOpenBrakets = 0 THEN NoReader ELSE r

\* after the loop: "set the default font in the Document", a call made
\* when the reader returns with the parser still working
FontDefault(bReturns, bWorking) ==
  IF bReturns /\ bNewDoc /\ bWorking
  THEN <<[fn |-> "SetDefault", nToken |-> "RTF_DEFF"]>> ELSE <<>>

\* one pass of the loop: r is the reader after the switch
\* ev.log holds the pair the pass has handed to m_FontTable.insert,
\* ev.calls the call of SetDefault
FontPass(r, bCheckNewFont) ==
  IF FontReady(r, bCheckNewFont)
  THEN /\ m_FontTable' = FontInserted(m_FontTable, r)
       /\ reader' = FontLoop(FontNext(r))
       /\ ev' = [Idle("font") EXCEPT !.log = <<FontPair(r)>>,
                                     !.calls = FontDefault(r.nOpenBrakets = 0, TRUE)]
  ELSE /\ m_FontTable' = m_FontTable
       /\ reader' = FontLoop(r)
       /\ ev' = [Idle("font") EXCEPT !.calls = FontDefault(r.nOpenBrakets = 0, TRUE)]

\* case RTF_FONTTBL: ReadFontTable starts
FontTbl ==
  /\ TakeTable(FontTokens)
  /\ reader' = [in |-> "font", nOpenBrakets |-> 1, pFont |-> NewFont,
                nFontNo |-> 0, nInsFontNo |-> 0, sAltNm |-> <<>>, sFntNm |-> <<>>,
                bIsAltFntNm |-> FALSE]
  /\ ev' = Idle("font")
  /\ UNCHANGED <<stackVars, eState, bChkStyleAttr, m_StyleTable, aColorTbl, m_FontTable>>

\* case '{': a group that is read, token by token
FontOpen ==
  /\ TakeIn("font", FontTokens)
  /\ FontPass([reader EXCEPT !.nOpenBrakets = @ + 1], FALSE)
  /\ UNCHANGED <<stackVars, eState, bChkStyleAttr, m_StyleTable, aColorTbl>>

\* variant: the reader goes on after the missing brace
FontIgnoredGoesOn(bClosed) ==
  /\ TakeIn("font", FontTokens)
  /\ ev' = IF bClosed THEN Idle("font") ELSE Malformed("font")
  /\ UNCHANGED <<stackVars, eState, reader, bChkStyleAttr, m_StyleTable, aColorTbl, m_FontTable>>

\* case '{': an ignorable group that is filtered out at once; its closing
\* brace has to follow, or else the status is Error: no font is ready
\* (bCheckNewFont is false), the loop condition fails and the reader returns
FontIgnored(bClosed) ==
  /\ TakeIn("font", FontTokens)
  /\ eState' = IF bClosed THEN eState ELSE "Error"
  /\ reader' = IF bClosed THEN reader ELSE NoReader
  /\ ev' = [(IF bClosed THEN Idle("font") ELSE Malformed("font")) EXCEPT
               !.calls = FontDefault(~bClosed, bClosed)]
  /\ UNCHANGED <<stackVars, bChkStyleAttr, m_StyleTable, aColorTbl, m_FontTable>>

\* case '}'
FontClose ==
  /\ TakeIn("font", FontTokens + 1)
  /\ FontPass([reader EXCEPT !.bIsAltFntNm = FALSE, !.nOpenBrakets = @ - 1,
                             !.nInsFontNo = reader.nFontNo], TRUE)
  /\ UNCHANGED <<stackVars, eState, bChkStyleAttr, m_StyleTable, aColorTbl>>

\* case RTF_FROMAN .. RTF_FDECOR, RTF_FTECH, RTF_FNIL
FontFamily(fam) ==
  /\ TakeIn("font", FontTokens)
  /\ FontPass([reader EXCEPT !.pFont.Family = IF fam \in {"TECH", "NIL"} THEN "DONTKNOW" ELSE fam,
                             !.pFont.CharSet = IF fam = "TECH" THEN "SYMBOL" ELSE @], FALSE)
  /\ UNCHANGED <<stackVars, eState, bChkStyleAttr, m_StyleTable, aColorTbl>>

\* case RTF_FCHARSET
FontCharset(v) ==
  /\ TakeIn("font", FontTokens)
  /\ FontPass(IF v # -1 THEN [reader EXCEPT !.pFont.CharSet = CharsetOf(v)] ELSE reader, FALSE)
  /\ UNCHANGED <<stackVars, eState, bChkStyleAttr, m_StyleTable, aColorTbl>>

\* case RTF_FPRQ
FontPitch(v) ==
  /\ TakeIn("font", FontTokens)
  /\ FontPass([reader EXCEPT !.pFont.Pitch = IF v = 1 THEN "FIXED"
                                              ELSE IF v = 2 THEN "VARIABLE" ELSE @], FALSE)
  /\ UNCHANGED <<stackVars, eState, bChkStyleAttr, m_StyleTable, aColorTbl>>

\* case RTF_F
FontNo(v) ==
  /\ TakeIn("font", FontTokens)
  /\ FontPass([reader EXCEPT !.nInsFontNo = reader.nFontNo, !.nFontNo = ToShort(v)], TRUE)
  /\ UNCHANGED <<stackVars, eState, bChkStyleAttr, m_StyleTable, aColorTbl>>

\* case RTF_FALT
FontAlt ==
  /\ TakeIn("font", FontTokens)
  /\ FontPass([reader EXCEPT !.bIsAltFntNm = TRUE], FALSE)
  /\ UNCHANGED <<stackVars, eState, bChkStyleAttr, m_StyleTable, aColorTbl>>

\* case RTF_TEXTTOKEN
FontText(str) ==
  /\ TakeIn("font", FontTokens)
  /\ LET nm == DelCharAtEnd(str, ";")
     IN FontPass(IF nm = <<>> THEN reader
                 ELSE IF reader.bIsAltFntNm THEN [reader EXCEPT !.sAltNm = nm]
                 ELSE [reader EXCEPT !.sFntNm = nm], FALSE)
  /\ UNCHANGED <<stackVars, eState, bChkStyleAttr, m_StyleTable, aColorTbl>>

\* the token source stops inside the group: IsParserWorking() ends the loop
FontStop(st) ==
  /\ TakeIn("font", FontTokens + 1)
  /\ eState' = st
  /\ reader' = NoReader
  /\ ev' = [Idle("font") EXCEPT !.calls = FontDefault(TRUE, FALSE)]
  /\ UNCHANGED <<stackVars, bChkStyleAttr, m_StyleTable, aColorTbl, m_FontTable>>

NextFont ==
  \/ FontTbl
  \/ FontOpen
  \/ \E bClosed \in BOOLEAN : FontIgnored(bClosed)
  \/ FontClose
  \/ \E fam \in FontFamilies : FontFamily(fam)
  \/ \E v \in FontCharsets : FontCharset(v)
  \/ \E v \in FontPitches : FontPitch(v)
  \/ \E v \in FontNos : FontNo(v)
  \/ FontAlt
  \/ \E str \in FontTexts : FontText(str)
  \/ \E st \in {"Pending", "Error"} : FontStop(st)

SpecFont == InitTables /\ [][NextFont]_vars

----------------------------------------------------------------------------
(* Style table: SvxRTFParser::ReadStyleTable *)

StyleTokens == 8     \* tokens of a style sheet group

\* new SvxRTFStyleType, with aAttrSet.Put( GetRTFDefaults() )
NewStyle == [StyleType(Put(EmptySet, GetRTFDefaults)) EXCEPT !.sName = <<>>]

StyleNoVals == {1, 2, 65537}
StyleTexts == { <<"A", ";">>, <<"B", ";">> }
BasedOnVals == {1}
OutlineVals == {1}

\* variant: the key is not erased first
StyleInsertedNoErase(tbl, key, pStyle) == MapInsert(tbl, key, pStyle)

\* "off to the table": the key is erased from a table that is not empty,
\* then the style is inserted
StyleInserted(tbl, key, pStyle) ==
  MapInsert(IF DOMAIN tbl # {} THEN MapErase(tbl, key) ELSE tbl, key, pStyle)

\* the reader returns when the loop condition fails, and sets the style
\* check back to what it was
StylePass(r) ==
  IF r.nOpenBrakets = 0
  THEN reader' = NoReader /\ bChkStyleAttr' = r.bSaveChkStyleAttr
  ELSE reader' = r /\ bChkStyleAttr' = bChkStyleAttr

\* case RTF_STYLESHEET: ReadStyleTable starts
StyleTbl ==
  /\ TakeTable(StyleTokens)
  /\ reader' = [in |-> "style", nOpenBrakets |-> 1, nStyleNo |-> 0, bHasStyleNo |-> FALSE,
                pStyle |-> NewStyle, bSaveChkStyleAttr |-> bChkStyleAttr]
  /\ bChkStyleAttr' = FALSE
  /\ ev' = Idle("style")
  /\ UNCHANGED <<stackVars, eState, m_StyleTable, aColorTbl, m_FontTable>>

\* case '{': a group that is read, token by token
StyleOpen ==
  /\ TakeIn("style", StyleTokens)
  /\ StylePass([reader EXCEPT !.nOpenBrakets = @ + 1])
  /\ ev' = Idle("style")
  /\ UNCHANGED <<stackVars, eState, m_StyleTable, aColorTbl, m_FontTable>>

\* case '{': an ignorable group that is filtered out at once; its closing
\* brace has to follow
StyleIgnored(bClosed) ==
  /\ TakeIn("style", StyleTokens)
  /\ eState' = IF bClosed THEN eState ELSE "Error"
  /\ IF bClosed THEN UNCHANGED <<reader, bChkStyleAttr>>
     ELSE reader' = NoReader /\ bChkStyleAttr' = reader.bSaveChkStyleAttr
  /\ ev' = IF bClosed THEN Idle("style") ELSE Malformed("style")
  /\ UNCHANGED <<stackVars, m_StyleTable, aColorTbl, m_FontTable>>

\* case '}'
StyleClose ==
  /\ TakeIn("style", StyleTokens + 1)
  /\ StylePass([reader EXCEPT !.nOpenBrakets = @ - 1])
  /\ ev' = Idle("style")
  /\ UNCHANGED <<stackVars, eState, m_StyleTable, aColorTbl, m_FontTable>>

\* case RTF_SBASEDON
StyleBasedOn(v) ==
  /\ TakeIn("style", StyleTokens)
  /\ StylePass([reader EXCEPT !.pStyle.nBasedOn = ToUInt16(v)])
  /\ ev' = Idle("style")
  /\ UNCHANGED <<stackVars, eState, m_StyleTable, aColorTbl, m_FontTable>>

\* case RTF_SNEXT: read over
StyleNext ==
  /\ TakeIn("style", StyleTokens)
  /\ ev' = Idle("style")
  /\ UNCHANGED <<stackVars, eState, reader, bChkStyleAttr, m_StyleTable, aColorTbl, m_FontTable>>

\* case RTF_OUTLINELEVEL, RTF_SOUTLVL
StyleOutline(v) ==
  /\ TakeIn("style", StyleTokens)
  /\ StylePass([reader EXCEPT !.pStyle.nOutlineNo = ToUInt8(v)])
  /\ ev' = Idle("style")
  /\ UNCHANGED <<stackVars, eState, m_StyleTable, aColorTbl, m_FontTable>>

\* case RTF_S, RTF_CS
StyleNo(v) ==
  /\ TakeIn("style", StyleTokens)
  /\ StylePass([reader EXCEPT !.nStyleNo = ToUInt16(ToShort(v)), !.bHasStyleNo = TRUE])
  /\ ev' = Idle("style")
  /\ UNCHANGED <<stackVars, eState, m_StyleTable, aColorTbl, m_FontTable>>

\* case RTF_TEXTTOKEN: with a style number at hand the style goes to the
\* table.  ev.log holds the pair handed to m_StyleTable.insert and whether
\* the table held the key when the token came.
StyleText(str) ==
  /\ TakeIn("style", StyleTokens)
  /\ IF reader.bHasStyleNo
     THEN LET pStyle == [reader.pStyle EXCEPT !.sName = DelCharAtEnd(str, ";")]
          IN /\ m_StyleTable' = StyleInserted(m_StyleTable, reader.nStyleNo, pStyle)
             /\ StylePass([reader EXCEPT !.pStyle = NewStyle, !.nStyleNo = 0,
                                         !.bHasStyleNo = FALSE])
             /\ ev' = [Idle("style") EXCEPT !.log =
                         <<[key |-> reader.nStyleNo, style |-> pStyle,
                            had |-> reader.nStyleNo \in DOMAIN m_StyleTable]>>]
     ELSE /\ UNCHANGED <<m_StyleTable, reader, bChkStyleAttr>>
          /\ ev' = Idle("style")
  /\ UNCHANGED <<stackVars, eState, aColorTbl, m_FontTable>>

\* an attribute token: ReadAttr( nToken, &pStyle->aAttrSet )
StyleAttr(id, v) ==
  /\ TakeIn("style", StyleTokens)
  /\ StylePass([reader EXCEPT !.pStyle.aAttrSet[id] = v])
  /\ ev' = Idle("style")
  /\ UNCHANGED <<stackVars, eState, m_StyleTable, aColorTbl, m_FontTable>>

\* the token source stops inside the group: IsParserWorking() ends the loop
StyleStop(st) ==
  /\ TakeIn("style", StyleTokens + 1)
  /\ eState' = st
  /\ reader' = NoReader
  /\ bChkStyleAttr' = reader.bSaveChkStyleAttr
  /\ ev' = Idle("style")
  /\ UNCHANGED <<stackVars, m_StyleTable, aColorTbl, m_FontTable>>

NextStyle ==
  \/ StyleTbl
  \/ StyleOpen
  \/ \E bClosed \in BOOLEAN : StyleIgnored(bClosed)
  \/ StyleClose
  \/ \E v \in BasedOnVals : StyleBasedOn(v)
  \/ StyleNext
  \/ \E v \in OutlineVals : StyleOutline(v)
  \/ \E v \in StyleNoVals : StyleNo(v)
  \/ \E str \in StyleTexts : StyleText(str)
  \/ \E id \in Ids, v \in Vals : StyleAttr(id, v)
  \/ \E st \in {"Pending", "Error"} : StyleStop(st)

SpecStyle == InitTables /\ [][NextStyle]_vars

----------------------------------------------------------------------------
(* The style reader on a token stream laid down in advance.  The lexer     *)
(* keeps the tokens it has delivered (reader.stack, the last one being the *)
(* current token) and those still to come (input); m_nTokenIndex is the    *)
(* number of tokens delivered.  One action per iteration of the loop of    *)
(* ReadStyleTable, by the token that GetNextToken hands to the switch.     *)
(* The assert of line 378 and nEnteringToken are compiled out (NDEBUG).    *)
(* What ReadAttr makes of a position in the stream is laid down with the   *)
(* token that stands there: whether it knows the token, and how many       *)
(* tokens after it it reads as well.                                       *)

LexLen == 5        \* tokens of a laid-down style sheet group
MaxMore == 1       \* tokens ReadAttr reads after the one it was called for

\* '{', '}', RTF_IGNOREFLAG, RTF_UNKNOWNCONTROL, and RTF_CHRFMT tokens
\* <<kind, id, value, known, more>> without and with RTF_SWGDEFS
LexTokens ==
  { <<"{">>, <<"}">>, <<"*">>, <<"unk">>, <<"swg", "chr", 2, FALSE, 0>> }
  \cup { <<"attr", "chr", 2, TRUE, m>> : m \in 0..MaxMore }
  \cup { <<"swg", "chr", 2, TRUE, m>> : m \in 0..MaxMore }

RECURSIVE Streams(_)
Streams(n) == IF n = 0 THEN {<<>>} ELSE Cat({<<t>> : t \in LexTokens}, Streams(n - 1))

\* the lexer as the reader finds it
Lexer == [stack |-> reader.stack, input |-> input, eof |-> FALSE]

TokenIndex(lx) == Len(lx.stack)

\* GetNextToken: the next token becomes the current one; a dry token
\* source delivers the end token and stops the parser
GetNextToken(lx) ==
  IF lx.input = <<>>
  THEN [lx EXCEPT !.stack = Append(@, <<"eof">>), !.eof = TRUE]
  ELSE [lx EXCEPT !.stack = Append(@, Head(lx.input)), !.input = Tail(@),
                  !.eof = @ \/ Head(lx.input) = <<"eof">>]

\* the current token
nTokenId(lx) == Last(lx.stack)

\* GetStackPtr( nCnt )->nTokenId for nCnt <= 0
GetStackPtr(lx, nCnt) == lx.stack[Len(lx.stack) + nCnt]

\* SkipToken( nCnt ): back by -nCnt tokens, which will be delivered again,
\* or on by nCnt tokens
SkipToken(lx, nCnt) ==
  IF nCnt < 0
  THEN [lx EXCEPT !.stack = SubSeq(@, 1, Len(@) + nCnt),
                  !.input = SubSeq(lx.stack, Len(lx.stack) + nCnt + 1, Len(lx.stack)) \o @]
  ELSE [lx EXCEPT !.stack = @ \o SubSeq(lx.input, 1, nCnt),
                  !.input = SubSeq(@, nCnt + 1, Len(@))]

\* ReadUnknownData: the rest of the group is read over, its closing brace
\* is left for the caller
RECURSIVE ReadUnknownData(_, _)
ReadUnknownData(lx, depth) ==
  LET nx == GetNextToken(lx) IN
  IF nx.eof THEN nx
  ELSE IF nTokenId(nx) = <<"}">>
  THEN (IF depth = 0 THEN SkipToken(nx, -1) ELSE ReadUnknownData(nx, depth - 1))
  ELSE IF nTokenId(nx) = <<"{">> THEN ReadUnknownData(nx, depth + 1)
  ELSE ReadUnknownData(nx, depth)

\* the attributes among the tokens ReadAttr has read
RECURSIVE PutTokens(_, _)
PutTokens(set, toks) ==
  IF toks = <<>> THEN set
  ELSE PutTokens(IF Head(toks)[1] \in {"attr", "swg"}
                 THEN [set EXCEPT ![Head(toks)[2]] = Head(toks)[3]] ELSE set, Tail(toks))

\* the lexer after k more tokens, or at the end of the token source
RECURSIVE ReadOn(_, _)
ReadOn(lx, k) == IF k = 0 \/ lx.eof THEN lx ELSE ReadOn(GetNextToken(lx), k - 1)

\* ReadAttr( nToken, &pStyle->aAttrSet ), called nSkippedTokens before the
\* token tok that entered the iteration: it reads nothing when it does not
\* know the token, else it reads past it, as far as is laid down with tok
ReadAttr(lx, tok, nSkippedTokens) ==
  ReadOn(lx, IF tok[4] THEN nSkippedTokens + tok[5] ELSE 0)

\* the tokens delivered between the lexer states from and to
Delivered(from, to) == SubSeq(to.stack, Len(from.stack) + 1, Len(to.stack))

\* variant: the index is forced on by one token
ForceForwardByOne(lx, nEnteringIndex, nSkippedTokens) ==
  IF nSkippedTokens # 0 /\ TokenIndex(lx) = nEnteringIndex - nSkippedTokens
  THEN SkipToken(lx, 1)
  ELSE lx

\* the safety skip after ReadAttr
ForceForward(lx, nEnteringIndex, nSkippedTokens) ==
  IF nSkippedTokens # 0 /\ TokenIndex(lx) = nEnteringIndex - nSkippedTokens
  THEN SkipToken(lx, nSkippedTokens)
  ELSE lx

\* the loop condition after an iteration that left the locals r and the
\* lexer lx; when it fails, the statements after the loop.  ev.log holds
\* what the iteration did with the token index.
LexDone(r, lx, st, log) ==
  /\ eState' = st
  /\ IF r.nOpenBrakets = 0 \/ st # "Working"
     THEN /\ input' = SkipToken(lx, -1).input
          /\ reader' = NoReader
          /\ bChkStyleAttr' = r.bSaveChkStyleAttr
     ELSE /\ input' = lx.input
          /\ reader' = [r EXCEPT !.stack = lx.stack]
          /\ bChkStyleAttr' = bChkStyleAttr
  /\ ev' = [Idle("lex") EXCEPT !.log = <<log @@ [idx |-> TokenIndex(lx)]>>]
  /\ UNCHANGED <<nTok, aAttrStack, m_AttrSetList, bNewGroup, doc, insNd, insCnt,
                 m_StyleTable, aColorTbl, m_FontTable>>

\* GetNextToken at the head of the loop delivers a token of the kind
LexTake(kind) ==
  /\ Running
  /\ reader.in = "style"
  /\ input # <<>>
  /\ Head(input)[1] = kind

\* what the iteration that is entered now will log
Entering(nSkippedTokens, k) ==
  [at |-> Len(reader.stack) + 1, tok |-> Head(input), nSkippedTokens |-> nSkippedTokens,
   read |-> k]

\* what the parser's status becomes when the token source is dry
StopStates == {"Accepted", "Pending", "Error"}

\* the status after an iteration that left the lexer lx
Status(lx, st) == IF lx.eof THEN st ELSE eState

\* case '}'
LexClose ==
  /\ LexTake("}")
  /\ LexDone([reader EXCEPT !.nOpenBrakets = @ - 1], GetNextToken(Lexer), eState,
             Entering(0, 0))

\* the look-ahead of case '{': the lexer it leaves, whether the group is
\* read token by token, and whether the status turns to Error
LookAhead(lx) ==
  LET t1 == GetNextToken(lx)
      t2 == GetNextToken(t1)
      t3 == GetNextToken(ReadUnknownData(t2, 0))
  IN IF nTokenId(t1) # <<"*">> THEN [lx |-> SkipToken(t1, -1), open |-> TRUE, err |-> FALSE]
     ELSE IF nTokenId(t2) # <<"unk">> THEN [lx |-> SkipToken(t2, -2), open |-> TRUE, err |-> FALSE]
     ELSE [lx |-> t3, open |-> FALSE, err |-> nTokenId(t3) # <<"}">>]

\* case '{'
LexOpen(st) ==
  /\ LexTake("{")
  /\ \E L \in {LookAhead(GetNextToken(Lexer))} :
       LexDone([reader EXCEPT !.nOpenBrakets = IF L.open THEN @ + 1 ELSE @], L.lx,
               IF L.lx.eof THEN st ELSE IF L.err THEN "Error" ELSE eState,
               Entering(0, 0))

\* how many tokens the iteration steps back for the token it was entered by
Stepped_(lx) ==
  IF nTokenId(lx)[1] # "swg" THEN 0
  ELSE IF GetStackPtr(lx, -1) # <<"*">> THEN 0
  ELSE IF GetStackPtr(SkipToken(lx, -1), -1) = <<"{">> THEN 2 ELSE 1

\* case RTF_CHRFMT: ReadAttr is called for the token, then the safety skip
ReadChrFmt(lx, st, n) ==
  \E back \in {SkipToken(lx, -n)} :
  \E rd \in {ReadAttr(back, nTokenId(lx), n)} :
     LexDone([reader EXCEPT !.pStyle.aAttrSet =
                PutTokens(@, (IF n = 0 THEN <<nTokenId(lx)>> ELSE <<>>) \o Delivered(back, rd))],
             ForceForward(rd, TokenIndex(lx), n), Status(rd, st),
             Entering(n, TokenIndex(rd) - TokenIndex(back)))

\* a RTF_CHRFMT token without RTF_SWGDEFS: ReadAttr starts at the token
LexAttr(st) ==
  /\ LexTake("attr")
  /\ ReadChrFmt(GetNextToken(Lexer), st, 0)

\* a RTF_CHRFMT token with RTF_SWGDEFS: left alone without the ignore flag
\* before it, else ReadAttr starts one or two tokens before it
LexSwg(st) ==
  /\ LexTake("swg")
  /\ \E lx \in {GetNextToken(Lexer)} :
       IF Stepped_(lx) = 0
       THEN LexDone(reader, lx, eState, Entering(0, 0))
       ELSE ReadChrFmt(lx, st, Stepped_(lx))

\* RTF_IGNOREFLAG or an unknown control word as the token of the
\* iteration: no case of the switch takes it
LexOther ==
  /\ LexTake("*") \/ LexTake("unk")
  /\ LexDone(reader, GetNextToken(Lexer), eState, Entering(0, 0))

\* the token source is dry: the parser stops with the status st
LexEnd(st) ==
  /\ Running
  /\ reader.in = "style"
  /\ input = <<>>
  /\ LexDone(reader, GetNextToken(Lexer), st,
             [at |-> Len(reader.stack) + 1, tok |-> <<"eof">>, nSkippedTokens |-> 0,
              read |-> 0])

\* ReadStyleTable has been entered by "{\stylesheet", the group is laid down
InitLex ==
  /\ input \in Streams(LexLen)
  /\ nTok = 0
  /\ aAttrStack = <<>>
  /\ m_AttrSetList = <<>>
  /\ bNewGroup = FALSE
  /\ doc = <<0>>
  /\ insNd = 1
  /\ insCnt = 0
  /\ eState = "Working"
  /\ bChkStyleAttr = FALSE
  /\ m_StyleTable = <<>>
  /\ ev = Idle("init")
  /\ aColorTbl = <<>>
  /\ m_FontTable = <<>>
  /\ reader = [in |-> "style", nOpenBrakets |-> 1, nStyleNo |-> 0, bHasStyleNo |-> FALSE,
               pStyle |-> NewStyle, bSaveChkStyleAttr |-> TRUE,
               stack |-> << <<"{">>, <<"stylesheet">> >>]

NextLex ==
  \/ LexClose
  \/ \E st \in StopStates : LexOpen(st)
  \/ \E st \in StopStates : LexAttr(st)
  \/ \E st \in StopStates : LexSwg(st)
  \/ LexOther
  \/ \E st \in StopStates : LexEnd(st)

\* the loop of ReadStyleTable goes on as long as its condition holds
SpecLex == InitLex /\ [][NextLex]_vars /\ WF_vars(NextLex)

----------------------------------------------------------------------------
(* Sessions: the parser as constructed, SetInsPos and CallParser.  insNd   *)
(* is 0 as long as pInsPos is null.  A session is the run of tokens from a *)
(* CallParser that found a position to the status that ends it.            *)

SessionTokens == 4     \* tokens the dispatcher takes over all sessions

\* SetInsPos( rNew ): the host hands over the end of the document
SetInsPos ==
  /\ ~Running
  /\ insNd' = Len(doc)
  /\ insCnt' = doc[Len(doc)]
  /\ ev' = Idle("pos")
  /\ UNCHANGED <<input, nTok, aAttrStack, m_AttrSetList, bNewGroup, doc, eState,
                 bChkStyleAttr, m_StyleTable, tblVars>>

\* variant: the insertion position is not looked at
CallParserUnchecked ==
  /\ ~Running
  /\ aColorTbl' = <<>>
  /\ m_FontTable' = <<>>
  /\ m_StyleTable' = <<>>
  /\ aAttrStack' = <<>>
  /\ bNewGroup' = FALSE
  /\ eState' = "Working"
  /\ ev' = Idle("call")
  /\ UNCHANGED <<input, nTok, m_AttrSetList, doc, insNd, insCnt, bChkStyleAttr, reader>>

\* CallParser: without a position it returns Error at once (ev.log holds
\* the value returned); with one it clears the tables and the stack and
\* the session starts
CallParser ==
  /\ ~Running
  /\ IF insNd = 0
     THEN /\ ev' = [Idle("call") EXCEPT !.log = <<[ret |-> "Error"]>>]
          /\ UNCHANGED <<input, nTok, aAttrStack, m_AttrSetList, bNewGroup, doc, insNd, insCnt,
                         eState, bChkStyleAttr, m_StyleTable, tblVars>>
     ELSE /\ aColorTbl' = <<>>
          /\ m_FontTable' = <<>>
          /\ m_StyleTable' = <<>>
          /\ aAttrStack' = <<>>
          /\ bNewGroup' = FALSE
          /\ eState' = "Working"
          /\ ev' = Idle("call")
          /\ UNCHANGED <<input, nTok, m_AttrSetList, doc, insNd, insCnt, bChkStyleAttr, reader>>

\* the parser as the constructor leaves it
InitSession ==
  /\ input = <<>>
  /\ nTok = MaxTokens - SessionTokens
  /\ aAttrStack = <<>>
  /\ m_AttrSetList = <<>>
  /\ bNewGroup = FALSE
  /\ doc = <<0>>
  /\ insNd = 0
  /\ insCnt = 0
  /\ eState = "NotStarted"
  /\ bChkStyleAttr = FALSE
  /\ m_StyleTable = <<>>
  /\ ev = Idle("init")
  /\ aColorTbl = <<>>
  /\ m_FontTable = <<>>
  /\ reader = NoReader

NextSession ==
  \/ SetInsPos
  \/ CallParser
  \/ Next
  \/ NextColor
  \/ NextFont
  \/ NextStyle

SpecSession == InitSession /\ [][NextSession]_vars

----------------------------------------------------------------------------
(* ClearStyleAttr_ on its own: a record, the check flag and a style table  *)
(* are drawn, the filter is applied to the record on the stack.            *)

AttrSets == [Ids -> Vals \cup {Unset}]
AsSet(f) == MkSet(LAMBDA i : f[i])

\* style tables: none, or one that holds style 1
FilterStyles == {<<>>} \cup { <<[StyleType(AsSet(f)) EXCEPT !.sName = <<>>]>> : f \in AttrSets }

InitFilter ==
  /\ input = <<>>
  /\ nTok = 0
  /\ \E f \in AttrSets, n \in {0, 1, 2} :
        aAttrStack = <<[NewStackType(1, 0) EXCEPT !.aAttrSet = AsSet(f), !.nStyleNo = n]>>
  /\ m_AttrSetList = <<>>
  /\ bNewGroup = FALSE
  /\ doc = <<0>>
  /\ insNd = 1
  /\ insCnt = 0
  /\ eState = "Working"
  /\ bChkStyleAttr \in BOOLEAN
  /\ m_StyleTable \in FilterStyles
  /\ ev = Idle("init")
  /\ aColorTbl = <<>>
  /\ m_FontTable = <<>>
  /\ reader = NoReader

\* ClearStyleAttr_( rStkType ) for the top record
FilterTop ==
  /\ aAttrStack # <<>>
  /\ \E R \in {ClearStyleAttr_(Last(aAttrStack), bChkStyleAttr, m_StyleTable)} :
        /\ aAttrStack' = Append(Front(aAttrStack), R)
        /\ ev' = [Idle("filter") EXCEPT !.before = <<Last(aAttrStack)>>, !.after = <<R>>]
  /\ UNCHANGED <<input, nTok, m_AttrSetList, bNewGroup, doc, insNd, insCnt, eState,
                 bChkStyleAttr, m_StyleTable, tblVars>>

SpecFilter == InitFilter /\ [][FilterTop]_vars

----------------------------------------------------------------------------
(* Well-nested token streams of '{', '}', text and paragraph tokens, laid  *)
(* down in advance: dispatched from the empty stack, or from a parent one  *)
(* close away from the fan-out threshold, whose groups the stream closes.  *)

NestLen == 6     \* tokens of a well-nested stream

NestTokens == { <<"{">>, <<"}">>, <<"text">>, <<"par">> }

\* '}' less '{' among the tokens s[lo..hi]
Excess(s, lo, hi) ==
  Cardinality({k \in lo..hi : s[k] = <<"}">>}) - Cardinality({k \in lo..hi : s[k] = <<"{">>})

\* no '}' without its '{', and depth groups left open at the start are closed
WellNested(s, depth) ==
  /\ \A n \in 1..Len(s) : Excess(s, 1, n) <= depth
  /\ Excess(s, 1, Len(s)) = depth

NestScripts(depth) ==
  {s \in UNION {[1..n -> NestTokens] : n \in 0..NestLen} : WellNested(s, depth)}

InitNest ==
  /\ nTok = MaxTokens
  /\ \/ /\ aAttrStack = <<>>
        /\ input \in NestScripts(0)
        /\ doc = <<0>>
        /\ insCnt = 0
     \/ \E k \in {FanOut - 1, FanOut} :
          /\ \/ aAttrStack = <<FanParent(k), FanOpenKid(k)>> /\ input \in NestScripts(2)
             \/ aAttrStack = <<FanGrand, FanParent(k), FanOpenKid(k)>> /\ input \in NestScripts(3)
          /\ doc = <<k>>
          /\ insCnt = k
  /\ m_AttrSetList = <<>>
  /\ bNewGroup = FALSE
  /\ insNd = 1
  /\ eState = "Working"
  /\ bChkStyleAttr = FALSE
  /\ m_StyleTable = StyleSheet
  /\ ev = Idle("init")
  /\ aColorTbl = <<>>
  /\ m_FontTable = <<>>
  /\ reader = NoReader

NextNest ==
  \/ GroupOpen
  \/ GroupClose
  \/ TextToken
  \/ ParToken
  \/ \E st \in {"Accepted", "Pending", "Error"} : Continue(st)

SpecNest == InitNest /\ [][NextNest]_vars

----------------------------------------------------------------------------
(* Properties of the color table *)

Channels == {"nRed", "nGreen", "nBlue"}
Stored(c, ch) == IF ch = "nRed" THEN c.r ELSE IF ch = "nGreen" THEN c.g ELSE c.b
\* this step puts an entry into the color table
Commits == reader.in = "color" /\ Len(aColorTbl') = Len(aColorTbl) + 1
NewEntry == aColorTbl'[Len(aColorTbl')]

\* C19 - Color auto-substitution: the reader starts with no channel given;
\* when the color table is empty and the first entry is committed with none
\* of its three channels given by a red, green or blue token, the entry
\* stored is the automatic color, not RGB white.
C19_ColorAutoSubstitution ==
  [][ /\ (reader.in = "none" /\ reader'.in = "color") => reader'.given = {}
      /\ (Commits /\ aColorTbl = <<>> /\ reader.given = {}) =>
            /\ aColorTbl' = <<COL_AUTO>>
            /\ NewEntry # Color(255, 255, 255) ]_vars

\* the first token of the group committed the first entry of the table
C19_Witness ==
  /\ reader.in = "color" /\ reader.entries = 1
  /\ nTok = 2
  /\ aColorTbl = <<COL_AUTO>>

\* C20 as stated - after each committed entry the three accumulators are
\* 0, every entry after the first of the table is a plain RGB value in
\* which each channel not given since the previous commit is 0, and the
\* automatic color is stored at no position but the first.
C20_Original ==
  [][ Commits =>
        /\ reader'.nRed = 0 /\ reader'.nGreen = 0 /\ reader'.nBlue = 0
        /\ aColorTbl # <<>> =>
              /\ NewEntry.t = 0
              /\ \A ch \in Channels \ reader.given : Stored(NewEntry, ch) = 0 ]_vars

\* C20 - Color channel reset: after each committed entry the three
\* accumulators are 0, so every later entry of the same color table group
\* is a plain RGB value in which each channel not given since the previous
\* commit is 0; the first entry of a group that finds the table filled is a
\* plain RGB value in which each channel not given is 255; the automatic
\* color is stored at no position but the first.
C20_ColorChannelReset ==
  [][ Commits =>
        /\ reader'.nRed = 0 /\ reader'.nGreen = 0 /\ reader'.nBlue = 0
        /\ aColorTbl # <<>> =>
              /\ NewEntry.t = 0
              /\ NewEntry # COL_AUTO
              /\ \A ch \in Channels \ reader.given :
                    Stored(NewEntry, ch) = IF reader.entries = 0 THEN 255 ELSE 0
              /\ \A ch \in reader.given : Stored(NewEntry, ch) = reader[ch] ]_vars

\* the second entry of a group was committed with one channel given
C20_Witness ==
  /\ reader.in = "color" /\ reader.entries = 2
  /\ Len(aColorTbl) = 2
  /\ aColorTbl[1] = COL_AUTO
  /\ aColorTbl[2] = Color(128, 0, 0)

\* C32 - Explicit white as first color: an entry committed to the empty
\* color table is stored as the automatic color, and not as RGB white,
\* whenever each of its channels is 255 at the commit: left as the reader
\* starts it, or given by a red, green or blue token with a value that is
\* 255 modulo 256.
C32_ExplicitWhiteFirst ==
  [][ (/\ Commits /\ aColorTbl = <<>>
       /\ \A ch \in DOMAIN reader.nTokenValue : reader.nTokenValue[ch] % 256 = 255) =>
          /\ reader.nRed = 255 /\ reader.nGreen = 255 /\ reader.nBlue = 255
          /\ aColorTbl' = <<COL_AUTO>>
          /\ NewEntry # Color(255, 255, 255) ]_vars

\* the first entry was committed after a red, a green and a blue token,
\* not all with the value 255, and is the automatic color
C32_Witness ==
  /\ ev.op = "color" /\ ev.log # <<>>
  /\ ev.log[1].at = 1
  /\ DOMAIN ev.log[1].nTokenValue = Channels
  /\ \E ch \in Channels : ev.log[1].nTokenValue[ch] = 511
  /\ aColorTbl = <<COL_AUTO>>

----------------------------------------------------------------------------
(* Properties of the font table *)

\* C17 - Font redefinition: when a font table declares an entry, with a
\* name, under a font id that an earlier entry was declared under, the font
\* table afterwards maps that id to the later entry.
C17_FontRedefinition ==
  [][ (ev'.op = "font" /\ ev'.log # <<>> /\ ev'.log[1].key \in DOMAIN m_FontTable) =>
        m_FontTable'[ev'.log[1].key] = ev'.log[1].font ]_vars

----------------------------------------------------------------------------
(* Properties of the style table *)

\* C18 - Style redeclaration: when a style sheet declares a style under an
\* id, the style table afterwards maps that id to the record of this, the
\* last, declaration and maps every other id as before; this holds for an
\* id declared before, the first id ever inserted included.
C18_StyleRedeclaration ==
  [][ (ev'.op = "style" /\ ev'.log # <<>>) =>
        LET e == ev'.log[1] IN
        /\ e.had <=> e.key \in DOMAIN m_StyleTable
        /\ DOMAIN m_StyleTable' = DOMAIN m_StyleTable \cup {e.key}
        /\ m_StyleTable'[e.key] = e.style
        /\ \A k \in DOMAIN m_StyleTable \ {e.key} : m_StyleTable'[k] = m_StyleTable[k] ]_vars

\* the only id of the table, the first ever inserted, was declared again
\* with another name
C18_Witness ==
  /\ ev.op = "style" /\ ev.log # <<>>
  /\ ev.log[1].had
  /\ DOMAIN m_StyleTable = {ev.log[1].key}
  /\ m_StyleTable[ev.log[1].key].sName = <<"B">>
  /\ m_StyleTable[ev.log[1].key] = ev.log[1].style

----------------------------------------------------------------------------
(* Properties of sessions *)

\* C21 - No state persists across sessions: every CallParser made with an
\* insertion position leaves the color, font and style tables empty, the
\* scope stack empty, the pending-open flag clear and the flush list
\* empty, whatever the session before has left behind.
C21_NoStateAcrossSessions ==
  [][ (ev'.op = "call" /\ insNd # 0) =>
        /\ aColorTbl' = <<>>
        /\ DOMAIN m_FontTable' = {}
        /\ DOMAIN m_StyleTable' = {}
        /\ aAttrStack' = <<>>
        /\ ~bNewGroup'
        /\ m_AttrSetList' = <<>> ]_vars

\* C22 - Missing insertion position: a CallParser made without an insertion
\* position returns Error, takes no token and leaves the color, font and
\* style tables, the scope stack and the flush list as they were.
C22_MissingInsertionPosition ==
  [][ (ev'.op = "call" /\ insNd = 0) =>
        /\ ev'.log = <<[ret |-> "Error"]>>
        /\ nTok' = nTok
        /\ input' = input
        /\ UNCHANGED <<aColorTbl, m_FontTable, m_StyleTable, aAttrStack, m_AttrSetList>> ]_vars

\* CallParser has returned Error for want of a position
C22_Witness ==
  /\ ev.op = "call"
  /\ insNd = 0
  /\ ev.log = <<[ret |-> "Error"]>>
  /\ ~Running

\* C23 - Malformed nesting in a table reader: when the font or the style
\* reader finds a token other than the closing brace after a group it has
\* filtered out, the status becomes Error and the reader returns with this
\* token as its last, without a record committed and without the call
\* that sets the default font; and as long as the status is Error no token
\* is taken and the font and style tables stay as they are.
C23_MalformedNesting ==
  [][ /\ ev'.op = "malformed" =>
           /\ reader.in = ev'.log[1].in
           /\ reader.in \in {"font", "style"}
           /\ eState = "Working" /\ eState' = "Error"
           /\ reader' = NoReader
           /\ nTok' = nTok + 1
           /\ UNCHANGED <<m_FontTable, m_StyleTable>>
           /\ ev'.calls = <<>>
      /\ (eState = "Error" /\ eState' = "Error") =>
           /\ UNCHANGED <<nTok, m_FontTable, m_StyleTable>>
           /\ ev'.calls = <<>> ]_vars

\* the style reader has met malformed nesting after a font was committed
C23_Witness ==
  /\ ev.op = "malformed"
  /\ ev.log[1].in = "style"
  /\ eState = "Error"
  /\ DOMAIN m_FontTable # {}

----------------------------------------------------------------------------
(* Properties of the style filter *)

\* the value an attribute must not keep: the value the referenced style
\* sets for the id, the pool default where the style sets none or no
\* style is looked at
Redundant(rec, i) ==
  IF \/ ~bChkStyleAttr
     \/ Count(rec.aAttrSet) = 0
     \/ rec.nStyleNo \notin DOMAIN m_StyleTable
     \/ m_StyleTable[rec.nStyleNo].aAttrSet[i] = Unset
  THEN PoolDefault(i)
  ELSE m_StyleTable[rec.nStyleNo].aAttrSet[i]

\* C24 - Style filtering result: after ClearStyleAttr_ on a record no
\* attribute is left that equals the pool default, when the check is off,
\* the record is empty or its style is not in the table, and otherwise
\* none that equals the value the style sets for the id, or the pool
\* default for an id the style does not set; every other attribute is
\* kept, and nothing else of the record is changed.
C24_StyleFilteringResult ==
  ev.op = "filter" =>
    LET old == ev.before[1]
        new == ev.after[1]
    IN /\ \A i \in Ids :
             new.aAttrSet[i] = IF old.aAttrSet[i] = Redundant(old, i) THEN Unset
                               ELSE old.aAttrSet[i]
       /\ new = [old EXCEPT !.aAttrSet = new.aAttrSet]

\* the filter has looked at a style: one attribute went because the style
\* sets it so, and one that equals the pool default stayed because the
\* style sets another value
C24_Witness ==
  /\ ev.op = "filter"
  /\ bChkStyleAttr
  /\ ev.before[1].nStyleNo \in DOMAIN m_StyleTable
  /\ \E i \in Ids : ev.before[1].aAttrSet[i] # Unset /\ ev.after[1].aAttrSet[i] = Unset
                     /\ ev.before[1].aAttrSet[i] # PoolDefault(i)
  /\ \E i \in Ids : ev.after[1].aAttrSet[i] = PoolDefault(i)

----------------------------------------------------------------------------
(* Properties of Compress, for the records of the last flush *)

\* child k as the loop of Compress on node finds it: the first as it is,
\* a later one after Compress has run on it
Seen(node, k) == IF k = 1 THEN Kid(node, 1) ELSE CompressKid(doc, Kid(node, k))

\* the items every child holds with the value of the first child
Candidates(node) ==
  {i \in Ids : \A k \in KidIdx(node) :
      Seen(node, k).aAttrSet[i] # Unset /\ Seen(node, k).aAttrSet[i] = Kid(node, 1).aAttrSet[i]}

\* Compress on node does not commit
NoCommit(node) ==
  \/ Count(Kid(node, 1).aAttrSet) = 0
  \/ Kid(node, 1).pSttNd # node.pSttNd \/ Kid(node, 1).nSttCnt # node.nSttCnt
  \/ \E k \in KidIdx(node) :
        k > 1 /\ Gap(doc, Kid(node, k), Kid(node, k - 1).pEndNd, Kid(node, k - 1).nEndCnt)
  \/ Candidates(node) = {}
  \/ Last(node.m_pChildList).pEndNd # node.pEndNd
  \/ Last(node.m_pChildList).nEndCnt # node.nEndCnt

\* C25 - Compress is all-or-nothing at one level: when Compress on a node
\* does not commit, the node keeps its attribute collection and its range,
\* its children keep their number and order, each child is as it was or as
\* Compress on the child itself leaves it, and no child has lost an
\* attribute.
C25_CompressAllOrNothing ==
  \A node \in Flushed :
     (node.m_pChildList # <<>> /\ NoCommit(node)) =>
        LET c == Compress(doc, node)
        IN /\ c = [node EXCEPT !.m_pChildList = c.m_pChildList]
           /\ Len(c.m_pChildList) = Len(node.m_pChildList)
           /\ Kid(c, 1) = Kid(node, 1)
           /\ \A k \in KidIdx(node) :
                 /\ Kid(c, k) \in {Kid(node, k), Compress(doc, Kid(node, k))}
                 /\ \A i \in Ids : Kid(node, k).aAttrSet[i] # Unset => Kid(c, k).aAttrSet[i] # Unset

\* Compress did not commit on a node whose first child holds attributes
\* and starts where the node starts, and it has changed a later child
C25_Witness ==
  \E node \in Flushed :
     /\ Len(node.m_pChildList) >= 2
     /\ Count(Kid(node, 1).aAttrSet) # 0
     /\ Kid(node, 1).pSttNd = node.pSttNd /\ Kid(node, 1).nSttCnt = node.nSttCnt
     /\ NoCommit(node)
     /\ \E k \in KidIdx(node) : Kid(Compress(doc, node), k) # Kid(node, k)

\* the positions of the document: the characters of each paragraph, and
\* the end of each paragraph
CharPositions == UNION {{[nd |-> n, cnt |-> c] : c \in 0..(doc[n] - 1)} : n \in 1..Len(doc)}
ParaEnds == {[nd |-> n, cnt |-> doc[n]] : n \in 1..Len(doc)}

\* the record's range holds the position
Covers(rec, p) ==
  /\ PosLeq(rec.pSttNd, rec.nSttCnt, p.nd, p.cnt)
  /\ PosLess(p.nd, p.cnt, rec.pEndNd, rec.nEndCnt)

\* the records of the subtree of node that cover p and set id, each as
\* <<depth, value>>; node itself is at depth n
RECURSIVE Setters(_, _, _, _)
Setters(node, id, p, n) ==
  (IF Covers(node, p) /\ node.aAttrSet[id] # Unset THEN {<<n, node.aAttrSet[id]>>} ELSE {})
  \cup UNION {Setters(Kid(node, k), id, p, n + 1) : k \in KidIdx(node)}

\* the effective value of id at p in the subtree of node: what the deepest
\* of these records set
Effective(node, id, p) ==
  LET all == Setters(node, id, p, 0)
  IN {h[2] : h \in {g \in all : \A f \in all : f[1] <= g[1]}}

\* C26 as stated - at every position of the node's range, the ends of
\* paragraphs included.
C26_Original ==
  \A node \in Flushed, id \in Ids, p \in CharPositions \cup ParaEnds :
     Covers(node, p) => Effective(Compress(doc, node), id, p) = Effective(node, id, p)

\* C26 - Compress preserves formatting: for every node, every attribute id
\* and every character of the document in the node's range, the effective
\* value is the same before and after Compress on the node.
C26_CompressPreservesFormatting ==
  \A node \in Flushed, id \in Ids, p \in CharPositions :
     Covers(node, p) => Effective(Compress(doc, node), id, p) = Effective(node, id, p)

\* Compress has replaced an attribute the node held itself, and a
\* character of the node's range has the value the children had set
C26_Witness ==
  \E node \in Flushed, id \in Ids, p \in CharPositions :
     /\ Covers(node, p)
     /\ Len(node.m_pChildList) >= 2
     /\ node.aAttrSet[id] # Unset
     /\ Compress(doc, node).aAttrSet[id] # node.aAttrSet[id]
     /\ Effective(node, id, p) = {Compress(doc, node).aAttrSet[id]}

----------------------------------------------------------------------------
(* Properties of the stack depth *)

\* the groups that are open: those the tokens still to come close
OpenGroups == Excess(input, 1, Len(input))

\* C27 - Stack depth tracks nesting: while a well-nested stream of '{',
\* '}', text and paragraph tokens is dispatched, the scope stack holds one
\* record per open group, less one when the pending-open flag is set,
\* also after a close that closed the parent early; it is empty, with the
\* flag clear, once every group is closed.
C27_StackDepthTracksNesting ==
  /\ Len(aAttrStack) = OpenGroups - (IF bNewGroup THEN 1 ELSE 0)
  /\ OpenGroups = 0 => aAttrStack = <<>> /\ ~bNewGroup

\* a close has closed its parent early and pushed the scope that replaces
\* it, with a group still open
C27_Witness ==
  /\ ev.op = "close" /\ ev.log # <<>>
  /\ Last(ev.log).fan
  /\ Len(ev.log) = 2
  /\ OpenGroups >= 1
  /\ Len(aAttrStack) = OpenGroups

\* the calls of AttrGroupEnd in log that were not made by AttrGroupEnd
\* itself: each call that ran the fan-out rule made one of the others
Outermost(log) == Len(log) - Cardinality({k \in 1..Len(log) : log[k].fan})

\* C28 - Close always shrinks the stack: a '}' that calls AttrGroupEnd on
\* a stack that is not empty leaves the stack one record shorter, also
\* when the fan-out rule closes the parent and pushes the scope that
\* replaces it; and the loop of SetAllAttrOfStk empties the stack with
\* one call per record.
C28_CloseShrinksStack ==
  [][ /\ (ev'.op = "close" /\ ev'.log # <<>>) =>
           /\ Outermost(ev'.log) = 1
           /\ Len(aAttrStack') = Len(aAttrStack) - 1
      /\ ev'.op = "end" =>
           /\ aAttrStack' = <<>>
           /\ Outermost(ev'.log) = Len(aAttrStack) ]_vars

\* the fan-out rule has run, and the stack is one record shorter than the
\* call found it
C28_Witness ==
  /\ ev.op = "close" /\ ev.log # <<>>
  /\ Last(ev.log).fan
  /\ Len(aAttrStack) = Last(ev.log).depth - 1
  /\ Len(aAttrStack) >= 1

----------------------------------------------------------------------------
(* Properties of what a close keeps *)

\* C29 - No formatting is lost at close: every call of AttrGroupEnd drops
\* the record at once (no children, and no content or no span), drops it
\* as equal to its parent (no children), or keeps it: the record, or the
\* two pieces of the split one, are then held in a child list or in the
\* flush list, and the children are still in the record.  No call finds
\* the record's start after the stepped-back cursor.
C29_NoFormattingLost ==
  \A k \in 1..Len(ev.log) :
     LET e == ev.log[k] IN
     /\ e.res \in {"discard", "diffdrop", "plain", "split"}
     /\ e.res \in {"discard", "diffdrop"} => e.old.m_pChildList = <<>>
     /\ e.res \in {"plain", "split"} =>
          /\ Pieces(e) \subseteq Held
          /\ e.pieces[1].m_pChildList = e.old.m_pChildList
          /\ PosLeq(e.old.pSttNd, e.old.nSttCnt, Stepped(e).nd, Stepped(e).cnt)

\* a record with children was closed at the start of a paragraph, with the
\* cursor stepped back, and is held with its children
C29_Witness ==
  \E k \in 1..Len(ev.log) :
     /\ ev.log[k].back
     /\ ev.log[k].res = "plain"
     /\ ev.log[k].old.m_pChildList # <<>>
     /\ ev.log[k].pieces[1] \in Held

----------------------------------------------------------------------------
(* Properties of the style filter at close *)

\* the record of call e as it comes out of the comparison with the parent
Diffed(e) ==
  IF e.hasCur /\ Count(e.old.aAttrSet) # 0 THEN ParentDiff(e.old, e.cur) ELSE e.old

\* the attributes of rec after ClearStyleAttr_
Filtered(rec) == ClearStyleAttr_(rec, bChkStyleAttr, m_StyleTable).aAttrSet

\* C30 - Style filtering spares nested scopes: an unsplit record closed
\* under a parent keeps every attribute the comparison with the parent
\* has left, those equal to the pool default or to its style's value
\* included; an unsplit record is style-filtered exactly when it is the
\* outermost scope and the check is on; the two pieces of a split are
\* style-filtered exactly when the check is on, under a parent or not.
C30_FilterSparesNested ==
  \A k \in 1..Len(ev.log) :
     LET e == ev.log[k] IN
     /\ e.res = "plain" =>
          e.pieces[1].aAttrSet = IF bChkStyleAttr /\ ~e.hasCur THEN Filtered(Diffed(e))
                                 ELSE Diffed(e).aAttrSet
     /\ e.res = "split" =>
          /\ e.pieces[1].aAttrSet = IF bChkStyleAttr THEN Filtered(Diffed(e))
                                    ELSE Diffed(e).aAttrSet
          /\ e.pieces[2].aAttrSet =
                IF bChkStyleAttr THEN Filtered(SplitNew(RemovePard(Diffed(e))))
                ELSE RemovePard(Diffed(e)).aAttrSet

\* with the check on, a record closed under a parent holds an attribute
\* that the filter would have taken
C30_Witness ==
  \E k \in 1..Len(ev.log) :
     /\ bChkStyleAttr
     /\ ev.log[k].res = "plain"
     /\ ev.log[k].hasCur
     /\ Filtered(ev.log[k].pieces[1]) # ev.log[k].pieces[1].aAttrSet

----------------------------------------------------------------------------
(* Properties of the style reader's progress *)

\* an iteration of the style reader on a laid-down stream has been logged
Lexed(e) == e.op = "lex" /\ e.log # <<>>

====
